---- MODULE Spec2Model ----
(***************************************************************************)
(* ConversationStorage (src/teams_bot/conversation_storage.py): a          *)
(* per-conversation message log kept either in an Azure table or, after a  *)
(* fallback decided in the constructor, in a dictionary in memory.         *)
(*                                                                         *)
(* Every public method is one action; the action holds the whole method,   *)
(* the retention pass of add_message included.  The table service is the   *)
(* environment: each call to it either succeeds or raises, chosen freely.  *)
(***************************************************************************)
EXTENDS Integers, Sequences, FiniteSets, TLC

VARIABLES
    storage_account_name,   \* self.storage_account_name ("" stands for None / empty)
    connection_string,      \* self.connection_string    ("" stands for None / empty)
    table_service_client,   \* self.table_service_client: "none" (never assigned), "identity", "connstr"
    use_memory_fallback,    \* self.use_memory_fallback
    memory_storage,         \* self.memory_storage: conversation id -> list of turns
    table,                  \* the rows of the Azure table (the durable backend)
    clock,                  \* the instant of the last add_message call, in clock ticks
    appended,               \* history variable: the turns appended in memory to each id since its last clear
    ret,                    \* the last call: its name, arguments, result and the backend calls it made
    rag,                    \* RAGBridge: the last process_query call, its request(s) and its result
    conversation_state,     \* TeamsRAGBot.conversation_state: conversation id -> list of messages
    turn,                   \* TeamsRAGBot: the last inbound activity and what handling it did
    rendered,               \* TeamsRAGBot: the last format_response_card call and its result
    inflight,               \* TeamsRAGBot: the turns that are or were waiting for the bridge
    passes                  \* per process sharing the table: where its add_message stands

vars == <<storage_account_name, connection_string, table_service_client,
          use_memory_fallback, memory_storage, table, clock, appended, ret,
          rag, conversation_state, turn, rendered, inflight, passes>>

\* the variables of the ConversationStorage object and the others
storage_vars == <<storage_account_name, connection_string, table_service_client,
                  use_memory_fallback, memory_storage, table, clock, appended, ret>>
bridge_vars == <<rag>>
bot_vars == <<conversation_state, turn, rendered, inflight>>
writer_vars == <<passes>>

(***************************************************************************)
(* Program constants.                                                      *)
(***************************************************************************)
\* add_message keeps the last 20 turns of a conversation in memory
MemoryKeep == 20
\* _cleanup_old_messages(conversation_id, keep_count=50)
keep_count == 50
\* get_conversation_history(conversation_id, max_messages=20)
max_messages_default == 20

(***************************************************************************)
(* Bounds of the model.                                                    *)
(***************************************************************************)
\* how many ticks after construction the store is used
MaxTicks == 3
\* the resolution of datetime.utcnow(), in ticks: calls less than this apart
\* can read the same time
Resolution == 2
\* how many rows beyond keep_count (turns short of MemoryKeep) a long-lived store starts with
MaxOver == 1
\* how many processes (bot instances) write to the same table
MaxWriters == 2
\* clock values per second (10^6 microseconds in the program)
TicksPerSecond == 4

Ids == {"a", "b"}
Roles == {"user", "assistant"}
Contents == {"x"}
\* a backend call fails at its 1st, 2nd or 3rd request, or not at all (0)
Fails == 0..3
ClockStart == Resolution * (keep_count + MaxOver)
ClockEnd == ClockStart + MaxTicks

Min(a, b) == IF a < b THEN a ELSE b
Max(a, b) == IF a < b THEN b ELSE a

(***************************************************************************)
(* Time stamps.  A datetime is a clock value t; the two strings the code   *)
(* derives from it are sequences of fixed-width fields, compared as Python *)
(* compares strings (field by field, a proper prefix being smaller).       *)
(***************************************************************************)
\* datetime.utcnow(), read at instant now
utcnow(now) == now - (now % Resolution)

Seconds(t) == t \div TicksPerSecond
Microsecond(t) == t % TicksPerSecond

\* datetime.isoformat(): the fraction is left out when microsecond = 0
isoformat(t) ==
    IF Microsecond(t) = 0 THEN <<Seconds(t)>> ELSE <<Seconds(t), Microsecond(t)>>

\* timestamp.strftime("%Y%m%d%H%M%S%f"): always all fields
strftime(t) == <<Seconds(t), Microsecond(t)>>

RECURSIVE StrLess(_, _)
StrLess(a, b) ==
    IF a = <<>> THEN b # <<>>
    ELSE IF b = <<>> THEN FALSE
    ELSE IF Head(a) # Head(b) THEN Head(a) < Head(b)
    ELSE StrLess(Tail(a), Tail(b))

(***************************************************************************)
(* Python lists and dictionaries.                                          *)
(***************************************************************************)
\* s[-n:] for n >= 0: -0 is 0, so s[-0:] is the whole list
SliceLast(s, n) ==
    IF n = 0 THEN s ELSE SubSeq(s, Max(Len(s) - n, 0) + 1, Len(s))

\* s[:-n] for n > 0
SliceButLast(s, n) == SubSeq(s, 1, Max(Len(s) - n, 0))

\* d.get(k, [])
DictGet(d, k) == IF k \in DOMAIN d THEN d[k] ELSE <<>>

\* d[k] = v
DictSet(d, k, v) == [x \in (DOMAIN d) \cup {k} |-> IF x = k THEN v ELSE d[x]]

\* len([m for m in s if m.get("role") == role])
CountRole(s, role) == Cardinality({i \in 1..Len(s) : s[i].role = role})

(***************************************************************************)
(* The table service.                                                      *)
(***************************************************************************)
Entity(id, role, content, t) ==
    [PartitionKey |-> id, RowKey |-> strftime(t), Role |-> role,
     Content |-> content, Timestamp |-> isoformat(t), CreatedAt |-> t]

\* the rows a filter "PartitionKey eq '<id>'" selects
Partition(tbl, id) == {e \in tbl : e.PartitionKey = id}

RowKeyLess(x, y) == StrLess(x.RowKey, y.RowKey)

\* the rows of S in one order
Listing(S) == {f \in [1..Cardinality(S) -> S] : \A i, j \in DOMAIN f : i # j => f[i] # f[j]}

RECURSIVE SetToSeq(_)
SetToSeq(S) ==
    IF S = {} THEN <<>>
    ELSE LET e == CHOOSE x \in S : TRUE IN <<e>> \o SetToSeq(S \ {e})

Reverse(s) == [i \in 1..Len(s) |-> s[Len(s) + 1 - i]]

\* query_entities promises no order: every order for a partition of one or
\* two rows, the ascending and the descending one for a larger partition
QueryOrders(S) ==
    IF Cardinality(S) <= 2 THEN Listing(S)
    ELSE LET asc == SortSeq(SetToSeq(S), RowKeyLess) IN {asc, Reverse(asc)}

\* (a slip: the row is written with upsert_entity, which never refuses)
KeysTakenNever(tbl, pk, rk) == FALSE

\* create_entity raises ResourceExistsError when the keys are taken
KeysTaken(tbl, pk, rk) == \E e \in tbl : e.PartitionKey = pk /\ e.RowKey = rk

\* (a slip: the row is looked up by its row key alone)
delete_entity_any_partition(tbl, pk, rk) == {e \in tbl : e.RowKey # rk}

\* delete_entity(partition_key, row_key)
delete_entity(tbl, pk, rk) == {e \in tbl : ~(e.PartitionKey = pk /\ e.RowKey = rk)}

RECURSIVE DeleteFirst(_, _, _, _)
\* delete_entity on the first k entities of a listing
DeleteFirst(tbl, pk, listing, k) ==
    IF k = 0 THEN tbl
    ELSE DeleteFirst(delete_entity(tbl, pk, listing[1].RowKey), pk, Tail(listing), k - 1)

\* the backend calls of one operation, as a trace
DeleteCalls(k) == [i \in 1..k |-> "delete_entity"]

(***************************************************************************)
(* The constructor and the operations, as functions of the state they read *)
(* and of the outcome of each backend call.  `fail` numbers the backend    *)
(* request of the operation that raises (0: none does): 1 is the first     *)
(* request (create_entity or the listing), 1 + j the j-th delete_entity.   *)
(* get_table_client only builds a client object and sends nothing.         *)
(* Each result carries `calls`, the backend calls made, and `logged`, the  *)
(* logger.error calls made, in order.                                      *)
(***************************************************************************)

\* _ensure_table_exists: ResourceExistsError is fine, any other exception
\* switches to memory and is not raised again
ensure_table_exists(create_table) ==
    [use_memory_fallback |-> (create_table = "error"),
     calls |-> <<"create_table">>,
     logged |-> IF create_table = "error" THEN <<"table">> ELSE <<>>]

\* _fallback_to_memory
fallback_to_memory == [use_memory_fallback |-> TRUE, memory_storage |-> <<>>]

\* (a slip: the connection string is looked at first)
SelectConnectionStringFirst(acct, conn) ==
    IF conn # "" THEN "connstr" ELSE IF acct # "" THEN "identity" ELSE "none"

\* the if / elif / else of __init__: managed identity first, then connection
\* string, then memory
Select(acct, conn) ==
    IF acct # "" THEN "identity" ELSE IF conn # "" THEN "connstr" ELSE "none"

\* __init__.  client_raises: DefaultAzureCredential / TableServiceClient raises;
\* create_table: "created", "exists" (ResourceExistsError) or "error"
Construct(arg_conn, arg_acct, env_conn, env_acct, client_raises, create_table) ==
    LET acct == IF arg_acct # "" THEN arg_acct ELSE env_acct
        conn == IF arg_conn # "" THEN arg_conn ELSE env_conn
        base == [storage_account_name |-> acct, connection_string |-> conn,
                 memory_storage |-> <<>>, raised |-> FALSE]
        durable(kind) ==
            IF client_raises
            THEN base @@ [table_service_client |-> "none",
                          use_memory_fallback |-> fallback_to_memory.use_memory_fallback,
                          calls |-> <<kind>>, logged |-> <<"init">>]
            ELSE LET e == ensure_table_exists(create_table)
                 IN  base @@ [table_service_client |-> kind,
                              use_memory_fallback |-> e.use_memory_fallback,
                              calls |-> <<kind>> \o e.calls, logged |-> e.logged]
    IN  IF Select(acct, conn) # "none" THEN durable(Select(acct, conn))
        ELSE base @@ [table_service_client |-> "none",
                      use_memory_fallback |-> fallback_to_memory.use_memory_fallback,
                      calls |-> <<>>, logged |-> <<>>]

Turn(role, content, t) == [role |-> role, content |-> content, timestamp |-> isoformat(t)]

\* the dictionaries get_conversation_history builds from the listed entities
Messages(listing) ==
    [i \in 1..Len(listing) |->
        [role |-> listing[i].Role, content |-> listing[i].Content,
         timestamp |-> listing[i].Timestamp]]

TimestampLess(x, y) == StrLess(x.timestamp, y.timestamp)

\* get_conversation_history, memory branch
get_history_memory(ms, id, n) == SliceLast(DictGet(ms, id), n)

\* (a slip: the rows are returned in the order the query listed them)
get_history_table_unsorted(listing, n, fail) ==
    IF fail = 1
    THEN [result |-> <<>>, logged |-> <<"get">>,
          calls |-> <<"get_table_client", "query_entities">>]
    ELSE [result |-> SliceLast(Messages(listing), n), logged |-> <<>>,
          calls |-> <<"get_table_client", "query_entities">>]

\* get_conversation_history, table branch
get_history_table(listing, n, fail) ==
    IF fail = 1
    THEN [result |-> <<>>, logged |-> <<"get">>,
          calls |-> <<"get_table_client", "query_entities">>]
    ELSE [result |-> SliceLast(SortSeq(Messages(listing), TimestampLess), n),
          logged |-> <<>>,
          calls |-> <<"get_table_client", "query_entities">>]

\* (a slip: the list is never cut)
add_message_memory_uncut(ms, id, role, content, t) ==
    DictSet(ms, id, Append(DictGet(ms, id), Turn(role, content, t)))

\* add_message, memory branch
add_message_memory(ms, id, role, content, t) ==
    LET l == Append(DictGet(ms, id), Turn(role, content, t))
    IN  DictSet(ms, id, IF Len(l) > MemoryKeep THEN SliceLast(l, MemoryKeep) ELSE l)

\* (a slip: the listing is sliced as the service returned it, unsorted)
messages_to_delete_unsorted(entities) == SliceButLast(entities, keep_count)

\* entities.sort(key=RowKey); messages_to_delete = entities[:-keep_count]
messages_to_delete(entities) == SliceButLast(SortSeq(entities, RowKeyLess), keep_count)

\* the part of _cleanup_old_messages inside its try block (failed: a request
\* raised)
cleanup_body(tbl, id, listing, fail) ==
    IF fail = 1
    THEN [table |-> tbl, failed |-> TRUE,
          calls |-> <<"get_table_client", "query_entities">>]
    ELSE IF Len(listing) > keep_count
    THEN LET stop == fail >= 2 /\ fail - 1 <= Len(messages_to_delete(listing))
             done == IF stop THEN fail - 2 ELSE Len(messages_to_delete(listing))
         IN  [table |-> DeleteFirst(tbl, id, messages_to_delete(listing), done), failed |-> stop,
              calls |-> <<"get_table_client", "query_entities">>
                        \o DeleteCalls(IF stop THEN done + 1 ELSE done)]
    ELSE [table |-> tbl, failed |-> FALSE,
          calls |-> <<"get_table_client", "query_entities">>]

\* (a slip: entities[keep_count:] instead of entities[:-keep_count], so the
\* newest rows are the ones deleted)
cleanup_old_messages_newest(tbl, id, listing, fail) ==
    IF fail # 1 /\ Len(listing) > keep_count
    THEN LET sorted == SortSeq(listing, RowKeyLess)
             newest == SubSeq(sorted, keep_count + 1, Len(sorted))
         IN  [table |-> DeleteFirst(tbl, id, newest, Len(newest)),
              exc |-> FALSE, logged |-> <<>>,
              calls |-> <<"get_table_client", "query_entities">>
                        \o DeleteCalls(Len(newest))]
    ELSE [table |-> tbl, exc |-> FALSE,
          logged |-> IF fail = 1 THEN <<"cleanup">> ELSE <<>>,
          calls |-> <<"get_table_client", "query_entities">>]

\* (a slip: no try/except, so a failure of the pass leaves it as an exception)
cleanup_old_messages_uncaught(tbl, id, listing, fail) ==
    LET b == cleanup_body(tbl, id, listing, fail)
    IN  [table |-> b.table, exc |-> b.failed, logged |-> <<>>, calls |-> b.calls]

\* _cleanup_old_messages: its own try/except keeps every exception inside
\* (exc: the exception that leaves it)
cleanup_old_messages(tbl, id, listing, fail) ==
    LET b == cleanup_body(tbl, id, listing, fail)
    IN  [table |-> b.table, exc |-> FALSE,
         logged |-> IF b.failed THEN <<"cleanup">> ELSE <<>>, calls |-> b.calls]

\* (a slip: a failure of the retention pass is reported as a failed append)
add_message_table_strict(tbl, id, role, content, t, fail, listing, cfail) ==
    IF fail = 1 \/ KeysTaken(tbl, id, strftime(t))
    THEN [table |-> tbl, result |-> FALSE, raised |-> FALSE, logged |-> <<"add">>,
          calls |-> <<"get_table_client", "create_entity">>]
    ELSE LET c == cleanup_old_messages(tbl \cup {Entity(id, role, content, t)},
                                       id, listing, cfail)
         IN  [table |-> c.table, result |-> c.logged = <<>>, raised |-> FALSE,
              logged |-> c.logged,
              calls |-> <<"get_table_client", "create_entity">> \o c.calls]

\* add_message, table branch.  listing / cfail: the listing and the failure of
\* the retention pass, which runs inside add_message's try block
add_message_table(tbl, id, role, content, t, fail, listing, cfail) ==
    IF fail = 1 \/ KeysTaken(tbl, id, strftime(t))
    THEN [table |-> tbl, result |-> FALSE, raised |-> FALSE, logged |-> <<"add">>,
          calls |-> <<"get_table_client", "create_entity">>]
    ELSE LET c == cleanup_old_messages(tbl \cup {Entity(id, role, content, t)},
                                       id, listing, cfail)
         IN  [table |-> c.table, result |-> ~c.exc, raised |-> FALSE,
              logged |-> c.logged \o (IF c.exc THEN <<"add">> ELSE <<>>),
              calls |-> <<"get_table_client", "create_entity">> \o c.calls]

\* (a slip: True is returned whether or not a request raised)
clear_conversation_table_swallow(tbl, id, listing, fail) ==
    LET stop == fail >= 2 /\ fail - 1 <= Len(listing)
        done == IF fail = 1 THEN 0 ELSE IF stop THEN fail - 2 ELSE Len(listing)
    IN  [table |-> DeleteFirst(tbl, id, listing, done), result |-> TRUE,
         logged |-> IF fail = 1 \/ stop THEN <<"clear">> ELSE <<>>,
         calls |-> <<"get_table_client", "query_entities">>
                   \o DeleteCalls(IF stop THEN done + 1 ELSE done)]

\* (a slip: the deletes are sent as one transaction, all or none)
clear_conversation_table_atomic(tbl, id, listing, fail) ==
    IF fail = 1
    THEN [table |-> tbl, result |-> FALSE, logged |-> <<"clear">>,
          calls |-> <<"get_table_client", "query_entities">>]
    ELSE LET stop == fail >= 2 /\ fail - 1 <= Len(listing)
             done == IF stop THEN fail - 2 ELSE Len(listing)
         IN  [table |-> IF stop THEN tbl ELSE DeleteFirst(tbl, id, listing, done),
              result |-> ~stop,
              logged |-> IF stop THEN <<"clear">> ELSE <<>>,
              calls |-> <<"get_table_client", "query_entities">>
                        \o DeleteCalls(IF stop THEN done + 1 ELSE done)]

\* clear_conversation, table branch
clear_conversation_table(tbl, id, listing, fail) ==
    IF fail = 1
    THEN [table |-> tbl, result |-> FALSE, logged |-> <<"clear">>,
          calls |-> <<"get_table_client", "query_entities">>]
    ELSE LET stop == fail >= 2 /\ fail - 1 <= Len(listing)
             done == IF stop THEN fail - 2 ELSE Len(listing)
         IN  [table |-> DeleteFirst(tbl, id, listing, done), result |-> ~stop,
              logged |-> IF stop THEN <<"clear">> ELSE <<>>,
              calls |-> <<"get_table_client", "query_entities">>
                        \o DeleteCalls(IF stop THEN done + 1 ELSE done)]

\* get_conversation_stats, memory branch
get_stats_memory(ms, id) ==
    LET messages == DictGet(ms, id)
    IN  [message_count |-> Len(messages),
         user_messages |-> CountRole(messages, "user"),
         assistant_messages |-> CountRole(messages, "assistant"),
         storage_type |-> "memory"]

\* (a slip: the total is taken as users plus assistants)
get_stats_table_sum(listing, fail) ==
    LET entities == Messages(listing)
    IN  IF fail = 1
        THEN [result |-> [message_count |-> 0, user_messages |-> 0,
                          assistant_messages |-> 0, storage_type |-> "error"],
              logged |-> <<"stats">>,
              calls |-> <<"get_table_client", "query_entities">>]
        ELSE [result |-> [message_count |-> CountRole(entities, "user")
                                            + CountRole(entities, "assistant"),
                          user_messages |-> CountRole(entities, "user"),
                          assistant_messages |-> CountRole(entities, "assistant"),
                          storage_type |-> "azure_table"],
              logged |-> <<>>,
              calls |-> <<"get_table_client", "query_entities">>]

\* get_conversation_stats, table branch
get_stats_table(listing, fail) ==
    IF fail = 1
    THEN [result |-> [message_count |-> 0, user_messages |-> 0,
                      assistant_messages |-> 0, storage_type |-> "error"],
          logged |-> <<"stats">>,
          calls |-> <<"get_table_client", "query_entities">>]
    ELSE LET entities == Messages(listing)
         IN  [result |-> [message_count |-> Len(entities),
                          user_messages |-> CountRole(entities, "user"),
                          assistant_messages |-> CountRole(entities, "assistant"),
                          storage_type |-> "azure_table"],
              logged |-> <<>>,
              calls |-> <<"get_table_client", "query_entities">>]

(***************************************************************************)
(* RAGBridge (src/teams_bot/rag_bridge.py).                                *)
(*                                                                         *)
(* A JSON value, as response.json() returns it, is a record                *)
(*   [type, keys, vals, s]:                                                *)
(* type "dict" (keys and their values), "list" (vals), "str" (s) or "null".*)
(* Every value has all four fields, so that any two can be compared.       *)
(***************************************************************************)
Null == [type |-> "null", keys |-> <<>>, vals |-> <<>>, s |-> ""]
Str(x) == [type |-> "str", keys |-> <<>>, vals |-> <<>>, s |-> x]
List(items) == [type |-> "list", keys |-> <<>>, vals |-> items, s |-> ""]
Dict(ks, vs) == [type |-> "dict", keys |-> ks, vals |-> vs, s |-> ""]

\* isinstance(v, dict)
IsDict(v) == v.type = "dict"

\* the strings of the model that hold the word `content` / `data_points`
Substring(k, x) == x = "the " \o k

\* k in v: "true", "false", or "raise" (TypeError: not a container)
In(k, v) ==
    CASE v.type = "dict" -> IF \E i \in DOMAIN v.keys : v.keys[i] = k THEN "true" ELSE "false"
      [] v.type = "list" -> IF \E i \in DOMAIN v.vals : v.vals[i] = Str(k) THEN "true" ELSE "false"
      [] v.type = "str"  -> IF Substring(k, v.s) THEN "true" ELSE "false"
      [] OTHER           -> "raise"

\* v[k] can be evaluated (no KeyError, no TypeError)
CanItem(v, k) == v.type = "dict" /\ \E i \in DOMAIN v.keys : v.keys[i] = k

\* v[k], for a dictionary that has the key
Item(v, k) == v.vals[CHOOSE i \in DOMAIN v.keys : v.keys[i] = k]

\* v.get(k, default), for a dictionary
Get(v, k, default) == IF CanItem(v, k) THEN Item(v, k) ELSE default

\* `for x in v` can be evaluated (None is not iterable)
CanIter(v) == v.type \in {"dict", "list", "str"}

\* the values `for x in v` goes through: the keys of a dictionary, the items
\* of a list, the characters of a string (the strings the model iterates
\* have at most one character)
Iter(v) ==
    CASE v.type = "dict" -> [i \in DOMAIN v.keys |-> Str(v.keys[i])]
      [] v.type = "list" -> v.vals
      [] OTHER           -> IF v.s = "" THEN <<>> ELSE <<v>>

\* the canned answers of process_query and format_response
AuthenticationError ==
    Str("Authentication error with the search service. Please contact your administrator.")
ServiceUnavailable ==
    Str("The search service is temporarily unavailable. Please try again in a few minutes.")
CouldNotProcess ==
    Str("I couldn't process your request right now. Please try again later.")
TakingTooLong ==
    Str("The search is taking too long. Please try a simpler question or try again later.")
TroubleConnecting ==
    Str("I'm having trouble connecting to the search service. Please try again.")
NoAnswerFound == Str("No answer found")
UnexpectedFormat == Str("Unexpected response format from search service")

\* the answer of format_response (raised: an exception leaves the function)
format_answer(rag_response) ==
    LET message == Item(rag_response, "message")
        new == IF CanItem(rag_response, "message") THEN In("content", message) ELSE "false"
    IN  IF new = "raise" THEN [raised |-> TRUE, answer |-> Null]
        ELSE IF new = "true"
        THEN IF CanItem(message, "content")
             THEN [raised |-> FALSE, answer |-> Item(message, "content")]
             ELSE [raised |-> TRUE, answer |-> Null]
        ELSE IF CanItem(rag_response, "answer")
        THEN [raised |-> FALSE, answer |-> Item(rag_response, "answer")]
        ELSE [raised |-> FALSE, answer |-> NoAnswerFound]

\* the citation made of a data point of context.data_points
citation_of_data_point(data_point) ==
    [title |-> Get(data_point, "sourcefile", Get(data_point, "title", Str("Document"))),
     content |-> Get(data_point, "content", Str("")),
     url |-> Get(data_point, "sourcepage", Str("")),
     filepath |-> Get(data_point, "sourcefile", Str(""))]

\* the citation made of an element of the flat citations array
citation_of_citation(citation) ==
    [title |-> Get(citation, "title", Str("Document")),
     content |-> Get(citation, "content", Str("")),
     url |-> Get(citation, "url", Str("")),
     filepath |-> Get(citation, "filepath", Str(""))]

\* the elements of s that are dictionaries, in order
RECURSIVE Dicts(_)
Dicts(s) ==
    IF s = <<>> THEN <<>>
    ELSE (IF IsDict(Head(s)) THEN <<Head(s)>> ELSE <<>>) \o Dicts(Tail(s))

\* the citations of format_response
format_citations(rag_response) ==
    IF CanItem(rag_response, "context")
    THEN LET context == Item(rag_response, "context")
             has == In("data_points", context)
         IN  IF has = "raise" THEN [raised |-> TRUE, citations |-> <<>>]
             ELSE IF has = "false" THEN [raised |-> FALSE, citations |-> <<>>]
             ELSE IF ~CanItem(context, "data_points") \/ ~CanIter(Item(context, "data_points"))
             THEN [raised |-> TRUE, citations |-> <<>>]
             ELSE LET points == Dicts(Iter(Item(context, "data_points")))
                  IN  [raised |-> FALSE,
                       citations |-> [i \in DOMAIN points |-> citation_of_data_point(points[i])]]
    ELSE IF CanItem(rag_response, "citations")
    THEN LET flat == Item(rag_response, "citations")
         IN  IF ~CanIter(flat) \/ \E i \in DOMAIN Iter(flat) : ~IsDict(Iter(flat)[i])
             THEN [raised |-> TRUE, citations |-> <<>>]
             ELSE [raised |-> FALSE,
                   citations |-> [i \in DOMAIN Iter(flat) |-> citation_of_citation(Iter(flat)[i])]]
    ELSE [raised |-> FALSE, citations |-> <<>>]

\* format_response
format_response(rag_response) ==
    IF IsDict(rag_response)
    THEN LET a == format_answer(rag_response)
             c == format_citations(rag_response)
         IN  IF a.raised \/ c.raised
             THEN [raised |-> TRUE, answer |-> Null, citations |-> <<>>]
             ELSE [raised |-> FALSE, answer |-> a.answer, citations |-> c.citations]
    ELSE [raised |-> FALSE, answer |-> UnexpectedFormat, citations |-> <<>>]

\* the history argument of process_query: None, or a list
None == [none |-> TRUE, list |-> <<>>]
ListOf(l) == [none |-> FALSE, list |-> l]

\* `history or []`
OrEmpty(history) == IF history.none THEN <<>> ELSE history.list

\* (a slip: the current turn is put first)
payload_first(query, history) ==
    [messages |-> <<[role |-> "user", content |-> query]>> \o OrEmpty(history),
     context |-> [overrides |-> [top |-> 3, temperature |-> "0.3",
                                 minimum_search_score |-> "0.0",
                                 minimum_reranker_score |-> "0.0"]]]

\* the request body
payload(query, history) ==
    [messages |-> OrEmpty(history) \o <<[role |-> "user", content |-> query]>>,
     context |-> [overrides |-> [top |-> 3, temperature |-> "0.3",
                                 minimum_search_score |-> "0.0",
                                 minimum_reranker_score |-> "0.0"]]]

\* session.post(f"{self.backend_url}/chat", json=payload, headers=...)
post(json) == [method |-> "POST", path |-> "/chat", json |-> json]

\* what the network and the backend do to one request.
\*   sent:   "response" (status line and headers arrive), "timeout"
\*           (asyncio.TimeoutError), "error" (aiohttp.ClientError)
\*   status: the HTTP status of the response
\*   read:   reading the body with response.json() / response.text():
\*           "ok", "timeout", "error" (connection lost), "invalid" (not
\*           JSON / not text)
\*   body:   the JSON value of the body
Outcome(sent, status, read, body) ==
    [sent |-> sent, status |-> status, read |-> read, body |-> body]

Answer(answer) == [answer |-> answer, citations |-> <<>>]

\* (a slip: status > 500)
classify_above(status) ==
    IF status = 200 THEN "format" ELSE IF status = 401 THEN "auth"
    ELSE IF status > 500 THEN "unavailable" ELSE "other"

\* the if / elif chain on response.status
classify(status) ==
    IF status = 200 THEN "format" ELSE IF status = 401 THEN "auth"
    ELSE IF status >= 500 THEN "unavailable" ELSE "other"

\* (a slip: the request is sent again when no response arrived)
requests_sent_retry(query, history, net) ==
    IF net.sent = "response" THEN <<post(payload(query, history))>>
    ELSE <<post(payload(query, history)), post(payload(query, history))>>

\* the requests of one call: the one session.post
requests_sent(query, history, net) == <<post(payload(query, history))>>

Returned(value) == [exc |-> "none", value |-> value]
Raised(exc) == [exc |-> exc, value |-> Answer(Null)]

\* the try block of process_query: the value it returns, or the exception
\* that leaves it ("timeout": asyncio.TimeoutError, "exception": any other)
try_block(net) ==
    IF net.sent = "timeout" THEN Raised("timeout")
    ELSE IF net.sent = "error" THEN Raised("exception")
    ELSE CASE classify(net.status) = "format" ->
                  IF net.read = "timeout" THEN Raised("timeout")
                  ELSE IF net.read # "ok" THEN Raised("exception")
                  ELSE LET f == format_response(net.body)
                       IN  IF f.raised THEN Raised("exception")
                           ELSE Returned([answer |-> f.answer, citations |-> f.citations])
           [] classify(net.status) = "auth" -> Returned(Answer(AuthenticationError))
           [] classify(net.status) = "unavailable" -> Returned(Answer(ServiceUnavailable))
           [] OTHER ->
                  IF net.read = "timeout" THEN Raised("timeout")
                  ELSE IF net.read # "ok" THEN Raised("exception")
                  ELSE Returned(Answer(CouldNotProcess))

\* (a slip: only asyncio.TimeoutError is caught)
handlers_timeout_only(t) ==
    IF t.exc = "timeout" THEN [raised |-> FALSE, result |-> Answer(TakingTooLong)]
    ELSE IF t.exc = "exception" THEN [raised |-> TRUE, result |-> Answer(Null)]
    ELSE [raised |-> FALSE, result |-> t.value]

\* the two except clauses of process_query
handlers(t) ==
    IF t.exc = "timeout" THEN [raised |-> FALSE, result |-> Answer(TakingTooLong)]
    ELSE IF t.exc = "exception" THEN [raised |-> FALSE, result |-> Answer(TroubleConnecting)]
    ELSE [raised |-> FALSE, result |-> t.value]

\* process_query(query, history): the requests sent, the caller's history list
\* afterwards, and the value returned or the exception raised
process_query(query, history, net) ==
    LET h == handlers(try_block(net))
    IN  [posts |-> requests_sent(query, history, net), history |-> history,
         raised |-> h.raised, result |-> h.result]

\* one process_query call: its arguments (given: the history list as it was
\* passed), what the network did, and what process_query did
RagCall(op, query, history, net, r) ==
    [op |-> op, query |-> query, given |-> history, net |-> net,
     posts |-> r.posts, history |-> r.history, raised |-> r.raised, result |-> r.result]


\* the bridge before its first call
RagIdle ==
    RagCall("none", <<>>, None, Outcome("error", 0, "ok", Null),
            [posts |-> <<>>, history |-> None, raised |-> FALSE, result |-> Answer(Null)])

(***************************************************************************)
(* TeamsRAGBot (src/teams_bot/teams_bot.py).                               *)
(*                                                                         *)
(* A text is the sequence of its characters, so that the string methods    *)
(* and the regular expressions of the code do what they do in Python.      *)
(***************************************************************************)
Whitespace == {" ", "\t", "\n"}

RECURSIVE LStrip(_)
LStrip(s) == IF s # <<>> /\ Head(s) \in Whitespace THEN LStrip(Tail(s)) ELSE s

RECURSIVE RStrip(_)
RStrip(s) ==
    IF s # <<>> /\ s[Len(s)] \in Whitespace THEN RStrip(SubSeq(s, 1, Len(s) - 1)) ELSE s

\* (a slip: lstrip instead of strip)
strip_left_only(s) == LStrip(s)

\* str.strip()
Strip(s) == RStrip(LStrip(s))

\* str.startswith(prefix)
StartsWith(s, prefix) == Len(prefix) <= Len(s) /\ SubSeq(s, 1, Len(prefix)) = prefix

\* str.replace(sub, ""), sub not empty: every occurrence, from the left
RECURSIVE Remove(_, _)
Remove(s, sub) ==
    IF s = <<>> THEN <<>>
    ELSE IF StartsWith(s, sub) THEN Remove(SubSeq(s, Len(sub) + 1, Len(s)), sub)
    ELSE <<Head(s)>> \o Remove(Tail(s), sub)

\* the position of the first ">" of s, 0 if there is none
RECURSIVE FirstClose(_)
FirstClose(s) ==
    IF s = <<>> THEN 0
    ELSE IF Head(s) = ">" THEN 1
    ELSE LET k == FirstClose(Tail(s)) IN IF k = 0 THEN 0 ELSE k + 1

\* re.sub(r'<[^>]+>', '', s): a "<", one character or more that is not ">",
\* and the ">" that follows
RECURSIVE RemoveTags(_)
RemoveTags(s) ==
    IF s = <<>> THEN <<>>
    ELSE IF Head(s) = "<" /\ FirstClose(Tail(s)) >= 2
    THEN RemoveTags(SubSeq(s, FirstClose(Tail(s)) + 2, Len(s)))
    ELSE <<Head(s)>> \o RemoveTags(Tail(s))

\* re.sub(r'\s+', ' ', s)
RECURSIVE NormalizeWhitespace(_)
NormalizeWhitespace(s) ==
    IF s = <<>> THEN <<>>
    ELSE IF Head(s) \in Whitespace THEN <<" ">> \o NormalizeWhitespace(LStrip(s))
    ELSE <<Head(s)>> \o NormalizeWhitespace(Tail(s))

\* the capital letters of the texts of the model, and their small letters
Capitals == <<"A", "B", "C", "E", "H", "L", "P", "R">>
Smalls == <<"a", "b", "c", "e", "h", "l", "p", "r">>

\* (a slip: the text is compared as typed)
AsTyped(s) == s

\* str.lower()
Lower(s) ==
    [i \in DOMAIN s |->
        IF \E j \in DOMAIN Capitals : Capitals[j] = s[i]
        THEN Smalls[CHOOSE j \in DOMAIN Capitals : Capitals[j] = s[i]]
        ELSE s[i]]

\* an inbound message activity: its text (NoText: None), the texts of its
\* mention entities, and the id of its conversation
Activity(text, mentions, conversation) ==
    [text |-> text, mentions |-> mentions, conversation |-> conversation]

NoText == <<"None">>

\* the loop over the mention entities of clean_teams_message
RECURSIVE RemoveMentions(_, _)
RemoveMentions(text, mentions) ==
    IF mentions = <<>> THEN text
    ELSE RemoveMentions(IF Head(mentions) # <<>>
                        THEN Strip(Remove(text, Head(mentions))) ELSE text,
                        Tail(mentions))

\* (a slip: the text is returned without the last strip)
clean_teams_message_unstripped(activity) ==
    LET text == IF activity.text = NoText THEN <<>> ELSE activity.text
    IN  NormalizeWhitespace(RemoveTags(RemoveMentions(text, activity.mentions)))

\* clean_teams_message
clean_teams_message(activity) ==
    LET text == IF activity.text = NoText THEN <<>> ELSE activity.text
    IN  Strip(NormalizeWhitespace(RemoveTags(RemoveMentions(text, activity.mentions))))

help == <<"h", "e", "l", "p">>
slash_help == <<"/">> \o help
clear == <<"c", "l", "e", "a", "r">>
slash_clear == <<"/">> \o clear

\* the command handle_commands finds in the activity: "help", "clear" or "none"
command(activity) ==
    LET message == Lower(clean_teams_message(activity))
    IN  IF StartsWith(message, slash_help) \/ message = help THEN "help"
        ELSE IF StartsWith(message, slash_clear) \/ message = clear THEN "clear"
        ELSE "none"

MentionMarkup == <<"<", "a", "t", ">", "B", "o", "t", "<", "/", "a", "t", ">">>
MentionName == <<"@", "B", "o", "t">>

\* texts that are the help command, with the mention entities they come with
HelpTexts ==
    {<<help, <<>>>>, <<slash_help, <<>>>>, <<<<"H", "E", "L", "P">>, <<>>>>,
     <<<<" ", "H", "e", "l", "p", " ", "\n">>, <<>>>>,
     <<MentionMarkup \o <<" ">> \o help, <<MentionMarkup>>>>,
     <<<<" ">> \o MentionName \o <<" ", " ", "/", "H", "e", "l", "p", " ">>, <<MentionName>>>>}

\* texts that are the clear command
ClearTexts ==
    {<<clear, <<>>>>, <<slash_clear, <<>>>>, <<<<"C", "L", "E", "A", "R">>, <<>>>>,
     <<MentionMarkup \o <<" ", "/", "C", "l", "e", "a", "r", " ">>, <<MentionMarkup>>>>}

\* the question of the model holds the word help among others
Question == <<"h", "i", " ", "h", "e", "l", "p">>

\* a mention of the bot, then the question, with whitespace before, inside
\* and after
ScenarioText ==
    <<" ">> \o MentionName
    \o <<" ", " ", " ", "h", "i", " ", " ", "h", "e", "l", "p", " ", " ">>

\* texts that are a question, and texts with nothing in them
QuestionTexts ==
    {<<Question, <<>>>>, <<MentionMarkup \o <<" ">> \o Question, <<MentionMarkup>>>>,
     <<ScenarioText, <<MentionName>>>>}
EmptyTexts == {<<NoText, <<>>>>, <<<<" ">>, <<>>>>, <<MentionMarkup, <<MentionMarkup>>>>}

\* texts whose first token starts with /help or /clear and goes on
LongerTokenTexts ==
    {<<<<"/", "h", "e", "l", "p", "f", "u", "l">>, <<>>>>,
     <<<<"/", "C", "l", "e", "a", "r", "a", "n", "c", "e", " ", "h", "i">>, <<>>>>}

Activities ==
    {Activity(t[1], t[2], id) :
        t \in HelpTexts \cup ClearTexts \cup QuestionTexts \cup EmptyTexts
              \cup LongerTokenTexts,
        id \in Ids}

\* clean_teams_message and the command found, for each activity of the
\* model (the two are functions of the activity alone)
cleaned == [activity \in Activities |-> clean_teams_message(activity)]
commands == [activity \in Activities |-> command(activity)]

\* what is passed to turn_context.send_activity: a text, or a card
NoCard == [name |-> "none", answer |-> Null, citations |-> <<>>]
Text(text) == [kind |-> "text", text |-> text, card |-> NoCard]
Attachment(card) == [kind |-> "attachment", text |-> "", card |-> card]

create_help_card == [name |-> "help", answer |-> Null, citations |-> <<>>]

AskAQuestion == Text("Please ask me a question about your documents!")
\* (the text follows a check-mark emoji in the code)
HistoryCleared == Text("Conversation history cleared!")
TroubleProcessing == Text("I'm having trouble processing your request. Please try again.")

\* the i-th send_activity of a turn comes back (sendfail: "none" of them
\* raises, the "first" does, "all" do)
Delivered(sendfail, i) == sendfail = "none" \/ (sendfail = "first" /\ i > 1)

Sent(what, sendfail, i) == [what |-> what, ok |-> Delivered(sendfail, i)]

\* (a slip: the list is looked up under the user's id)
get_history_by_user(cs, id) == DictGet(cs, "user")

\* get_conversation_history of the bot
get_history(cs, id) == DictGet(cs, id)

\* (a slip: the user message is put at the head of the list)
update_conversation_history_around(cs, id, query, response) ==
    LET l == <<[role |-> "user", content |-> query]>> \o DictGet(cs, id)
             \o <<[role |-> "assistant", content |-> response.answer]>>
    IN  DictSet(cs, id, IF Len(l) > 20 THEN SliceLast(l, 20) ELSE l)

\* (a slip: the list is never cut)
update_conversation_history_uncut(cs, id, query, response) ==
    DictSet(cs, id, DictGet(cs, id) \o <<[role |-> "user", content |-> query],
                                         [role |-> "assistant", content |-> response.answer]>>)

\* (a slip: the list is cut to its last 19)
update_conversation_history_odd(cs, id, query, response) ==
    LET l == DictGet(cs, id) \o <<[role |-> "user", content |-> query],
                                  [role |-> "assistant", content |-> response.answer]>>
    IN  DictSet(cs, id, IF Len(l) > 20 THEN SliceLast(l, 19) ELSE l)

\* update_conversation_history
update_conversation_history(cs, id, query, response) ==
    LET l == DictGet(cs, id) \o <<[role |-> "user", content |-> query],
                                  [role |-> "assistant", content |-> response.answer]>>
    IN  DictSet(cs, id, IF Len(l) > 20 THEN SliceLast(l, 20) ELSE l)

\* len(v) can be evaluated (None has no length)
CanLen(v) == v.type # "null"

\* len(v)
PyLen(v) ==
    CASE v.type = "str"  -> Len(v.s)
      [] v.type = "list" -> Len(v.vals)
      [] OTHER           -> Len(v.keys)

\* the content of a citation as format_response_card shows it: the first
\* 200 characters and "..." when the text is longer than 200, the text
\* itself otherwise (raised: len(content), the slice or the + raises)
display(content) ==
    IF ~CanLen(content) THEN [raised |-> TRUE, content |-> Null]
    ELSE IF PyLen(content) > 200
    THEN IF content.type = "str"
         THEN [raised |-> FALSE, content |-> Str(SubSeq(content.s, 1, 200) \o "...")]
         ELSE [raised |-> TRUE, content |-> Null]
    ELSE [raised |-> FALSE, content |-> content]

\* format_response_card: the answer and a container for each of the first
\* three citations, with its title and its content (the header that counts
\* the citations found is left out)
format_response_card(response) ==
    LET shown == SubSeq(response.citations, 1, Min(3, Len(response.citations)))
    IN  [raised |-> \E i \in DOMAIN shown : display(shown[i].content).raised,
         card |-> [name |-> "response", answer |-> response.answer,
                   citations |-> [i \in DOMAIN shown |->
                                     [title |-> shown[i].title,
                                      content |-> display(shown[i].content).content]]]]

\* a call of format_response_card and what came of it
Rendering(op, response) ==
    [op |-> op, response |-> response, raised |-> format_response_card(response).raised,
     card |-> format_response_card(response).card]

RenderIdle == Rendering("none", [answer |-> Null, citations |-> <<>>])

\* what one part of a turn did: the conversation state, the sends, the reads
\* of the history, the calls of the bridge, and whether an exception left it
Did(cs, sends, reads, bridge, exc) ==
    [cs |-> cs, sends |-> sends, reads |-> reads, bridge |-> bridge, exc |-> exc]

\* handle_commands, for an activity that is a command
handle_commands(cs, activity, sendfail) ==
    IF commands[activity] = "help"
    THEN Did(cs, <<Sent(Attachment(create_help_card), sendfail, 1)>>, 0, <<>>,
             ~Delivered(sendfail, 1))
    ELSE Did(DictSet(cs, activity.conversation, <<>>),
             <<Sent(HistoryCleared, sendfail, 1)>>, 0, <<>>, ~Delivered(sendfail, 1))

\* (a slip: the card is built and sent first, the history updated after)
answer_block_send_first(cs, conversation_id, user_query, sendfail, call, r) ==
    IF r.raised \/ format_response_card(r.result).raised
    THEN Did(cs, <<>>, 1, <<call>>, TRUE)
    ELSE IF ~Delivered(sendfail, 1)
    THEN Did(cs, <<Sent(Attachment(format_response_card(r.result).card), sendfail, 1)>>,
             1, <<call>>, TRUE)
    ELSE Did(update_conversation_history(cs, conversation_id, user_query, r.result),
             <<Sent(Attachment(format_response_card(r.result).card), sendfail, 1)>>,
             1, <<call>>, FALSE)

\* the try block of on_message_activity from the answer r of the bridge on:
\* the history is updated, the card is built and sent
answer_block(cs, conversation_id, user_query, sendfail, call, r) ==
    IF r.raised THEN Did(cs, <<>>, 1, <<call>>, TRUE)
    ELSE IF format_response_card(r.result).raised
    THEN Did(update_conversation_history(cs, conversation_id, user_query, r.result),
             <<>>, 1, <<call>>, TRUE)
    ELSE Did(update_conversation_history(cs, conversation_id, user_query, r.result),
             <<Sent(Attachment(format_response_card(r.result).card), sendfail, 1)>>,
             1, <<call>>, ~Delivered(sendfail, 1))

\* the try block of on_message_activity from the read of the history on
query_block(cs, conversation_id, user_query, history, sendfail, net, r) ==
    answer_block(cs, conversation_id, user_query, sendfail,
                 RagCall("process_query", user_query, ListOf(history), net, r), r)

\* the try block of on_message_activity
message_try_block(cs, activity, sendfail, net) ==
    IF commands[activity] # "none" THEN handle_commands(cs, activity, sendfail)
    ELSE IF cleaned[activity] = <<>>
    THEN Did(cs, <<Sent(AskAQuestion, sendfail, 1)>>, 0, <<>>, ~Delivered(sendfail, 1))
    ELSE query_block(cs, activity.conversation, cleaned[activity],
                     get_history(cs, activity.conversation), sendfail, net,
                     process_query(cleaned[activity],
                                   ListOf(get_history(cs, activity.conversation)), net))

\* one handled activity.  storage_calls: the calls made on a
\* ConversationStorage; the bot holds none (its __init__ takes the bridge
\* only), so there is never one.  raised: an exception leaves
\* on_message_activity
Turn_(op, activity, d, sends, logged, raised) ==
    [op |-> op, activity |-> activity, sends |-> sends, reads |-> d.reads,
     bridge |-> d.bridge, storage_calls |-> <<>>, logged |-> logged, raised |-> raised]

\* (a slip: the apology is sent outside a try block of its own, so a failure
\* of that send leaves the handler)
except_clause_unguarded(activity, sendfail, d, apology) ==
    [cs |-> d.cs,
     turn |-> IF d.exc
              THEN Turn_("message", activity, d, Append(d.sends, apology),
                         <<"on_message_activity">>, ~apology.ok)
              ELSE Turn_("message", activity, d, d.sends, <<>>, FALSE)]

\* the except clause of on_message_activity, after the try block did d: it
\* logs, sends the apology, and logs and swallows the failure of that send
except_clause(activity, sendfail, d, apology) ==
    [cs |-> d.cs,
     turn |-> IF d.exc
              THEN Turn_("message", activity, d, Append(d.sends, apology),
                         <<"on_message_activity">>
                         \o (IF apology.ok THEN <<>> ELSE <<"send">>), FALSE)
              ELSE Turn_("message", activity, d, d.sends, <<>>, FALSE)]

\* (a slip: the except clause logs and sends nothing)
after_try_block_silent(activity, sendfail, d) ==
    [cs |-> d.cs,
     turn |-> Turn_("message", activity, d, d.sends,
                    IF d.exc THEN <<"on_message_activity">> ELSE <<>>, FALSE)]

after_try_block(activity, sendfail, d) ==
    except_clause(activity, sendfail, d, Sent(TroubleProcessing, sendfail, Len(d.sends) + 1))

\* on_message_activity
handle_message(cs, activity, sendfail, net) ==
    after_try_block(activity, sendfail, message_try_block(cs, activity, sendfail, net))

\* the bot before its first activity
TurnIdle ==
    Turn_("none", Activity(NoText, <<>>, ""), Did(<<>>, <<>>, 0, <<>>, FALSE), <<>>, <<>>,
          FALSE)

(***************************************************************************)
(* The state machine.                                                      *)
(***************************************************************************)
Call(op, id, n, role, content, t, result, raised, logged, calls) ==
    [op |-> op, id |-> id, n |-> n, role |-> role, content |-> content, t |-> t,
     result |-> result, raised |-> raised, logged |-> logged, calls |-> calls]

\* the instants of the next add_message call: later than the last one
Instants == {now \in (clock + 1)..(clock + Resolution) : now <= ClockEnd}

\* the processes that share the table, and a process outside add_message
Writers == 1..MaxWriters
PassIdle == [pc |-> "idle", id |-> "", todo |-> <<>>]

\* the store c that a constructor call returned, later: tbl in the table,
\* ms in memory (c.memory_storage right after the call)
ConstructedBot(c, tbl, ms, r, cs) ==
    /\ storage_account_name = c.storage_account_name
    /\ connection_string = c.connection_string
    /\ table_service_client = c.table_service_client
    /\ use_memory_fallback = c.use_memory_fallback
    /\ memory_storage = ms
    /\ table = tbl
    /\ clock = ClockStart
    /\ appended = ms
    /\ ret = Call("__init__", "", 0, "", "", ClockStart, TRUE, c.raised, c.logged, c.calls)
    /\ rag = RagIdle
    /\ conversation_state = cs
    /\ turn = TurnIdle
    /\ rendered = r
    /\ inflight = <<>>
    /\ passes = [w \in Writers |-> PassIdle]

\* the same with a bot that has handled nothing yet
ConstructedWith(c, tbl, ms, r) == ConstructedBot(c, tbl, ms, r, <<>>)

Constructed(c, tbl, ms) == ConstructedWith(c, tbl, ms, RenderIdle)

\* rows an earlier process left in the table
InitTables ==
    {{}, {Entity("a", "user", "x", ClockStart - Resolution),
          Entity("a", "assistant", "x", ClockStart),
          Entity("b", "system", "x", ClockStart)}}

ConnectionStrings == {"", "conn"}
AccountNames == {"", "acct"}
CreateTableOutcomes == {"created", "exists", "error"}

\* The constructor as the repository calls it: ConversationStorage(),
\* ConversationStorage(connection_string) or
\* ConversationStorage(storage_account_name=...), the environment holding
\* neither variable.
Init ==
    \E arg_conn \in ConnectionStrings, arg_acct \in AccountNames,
       client_raises \in BOOLEAN, create_table \in CreateTableOutcomes,
       tbl \in InitTables :
        /\ arg_conn = "" \/ arg_acct = ""
        /\ LET c == Construct(arg_conn, arg_acct, "", "", client_raises, create_table)
           IN  Constructed(c, tbl, c.memory_storage)

\* the rows of a partition as list(query_entities(...)) holds them, for the
\* callers whose result does not depend on the order
Listed(S) == SortSeq(SetToSeq(S), RowKeyLess)

\* (a slip: the except clause of an operation calls _fallback_to_memory)
on_operation_error_fallback(fallback) == TRUE

\* the except clause of an operation logs the error and returns; the flag
\* stays as it is
on_operation_error(fallback) == fallback

\* self.use_memory_fallback after an operation that logged these errors
flag_after(fallback, logged) ==
    IF logged # <<>> THEN on_operation_error(fallback) ELSE fallback

\* (a slip: the table is tried again whenever a client was built)
memory_branch_retry == use_memory_fallback /\ table_service_client = "none"

\* `if self.use_memory_fallback:` at the head of every operation
memory_branch == use_memory_fallback

get_conversation_history(ids, ns, fails) ==
    \E id \in ids, n \in ns :
        /\ IF memory_branch
           THEN ret' = Call("get", id, n, "", "", clock,
                            get_history_memory(memory_storage, id, n), FALSE, <<>>, <<>>)
           ELSE \E fail \in fails \cap {0, 1} :
                \E listing \in IF fail = 1 THEN {<<>>} ELSE QueryOrders(Partition(table, id)) :
                    LET r == get_history_table(listing, n, fail)
                    IN  ret' = Call("get", id, n, "", "", clock, r.result, FALSE,
                                    r.logged, r.calls)
        /\ use_memory_fallback' = flag_after(use_memory_fallback, ret'.logged)
        /\ UNCHANGED <<storage_account_name, connection_string, table_service_client,
                       memory_storage, table, clock, appended>>
        /\ UNCHANGED <<bridge_vars, bot_vars, writer_vars>>

add_message(ids, roles, fails) ==
    \E id \in ids, role \in roles, content \in Contents, now \in Instants :
      LET t == utcnow(now) IN
        /\ clock' = now
        /\ IF memory_branch
           THEN /\ memory_storage' = add_message_memory(memory_storage, id, role, content, t)
                /\ appended' = DictSet(appended, id,
                                       Append(DictGet(appended, id), Turn(role, content, t)))
                /\ table' = table
                /\ ret' = Call("add", id, 0, role, content, t, TRUE, FALSE, <<>>, <<>>)
           ELSE \E fail \in fails \cap {0, 1} :
                \E cfail \in IF fail = 1 THEN {0} ELSE fails :
                    LET listing == Listed(Partition(table \cup {Entity(id, role, content, t)}, id))
                        r == add_message_table(table, id, role, content, t, fail, listing, cfail)
                    IN  /\ table' = r.table
                        /\ ret' = Call("add", id, 0, role, content, t, r.result, r.raised,
                                       r.logged, r.calls)
                        /\ UNCHANGED <<memory_storage, appended>>
        /\ use_memory_fallback' = flag_after(use_memory_fallback, ret'.logged)
        /\ UNCHANGED <<storage_account_name, connection_string, table_service_client>>
        /\ UNCHANGED <<bridge_vars, bot_vars, writer_vars>>

clear_conversation(ids, fails) ==
    \E id \in ids :
        /\ IF memory_branch
           THEN /\ memory_storage' = DictSet(memory_storage, id, <<>>)
                /\ appended' = DictSet(appended, id, <<>>)
                /\ table' = table
                /\ ret' = Call("clear", id, 0, "", "", clock, TRUE, FALSE, <<>>, <<>>)
           ELSE \E fail \in fails :
                \E listing \in IF fail \in {0, 1} THEN {Listed(Partition(table, id))}
                               ELSE QueryOrders(Partition(table, id)) :
                    LET r == clear_conversation_table(table, id, listing, fail)
                    IN  /\ table' = r.table
                        /\ ret' = Call("clear", id, 0, "", "", clock, r.result, FALSE,
                                       r.logged, r.calls)
                        /\ UNCHANGED <<memory_storage, appended>>
        /\ use_memory_fallback' = flag_after(use_memory_fallback, ret'.logged)
        /\ UNCHANGED <<storage_account_name, connection_string, table_service_client,
                       clock>>
        /\ UNCHANGED <<bridge_vars, bot_vars, writer_vars>>

get_conversation_stats(ids, fails) ==
    \E id \in ids :
        /\ IF memory_branch
           THEN ret' = Call("stats", id, 0, "", "", clock,
                            get_stats_memory(memory_storage, id), FALSE, <<>>, <<>>)
           ELSE \E fail \in fails \cap {0, 1} :
                    LET r == get_stats_table(Listed(Partition(table, id)), fail)
                    IN  ret' = Call("stats", id, 0, "", "", clock, r.result, FALSE,
                                    r.logged, r.calls)
        /\ use_memory_fallback' = flag_after(use_memory_fallback, ret'.logged)
        /\ UNCHANGED <<storage_account_name, connection_string, table_service_client,
                       memory_storage, table, clock, appended>>
        /\ UNCHANGED <<bridge_vars, bot_vars, writer_vars>>

Ns == {0, 2, max_messages_default}

Next ==
    \/ get_conversation_history(Ids, Ns, Fails)
    \/ add_message(Ids, Roles, Fails)
    \/ clear_conversation(Ids, Fails)
    \/ get_conversation_stats(Ids, Fails)

Spec == Init /\ [][Next]_vars

(***************************************************************************)
(* A store that has been in use for a long time: conversation "a" holds    *)
(* about MemoryKeep turns in memory, or about keep_count rows in the       *)
(* table (more than keep_count after retention passes that failed), the    *)
(* i-th written at time Resolution * i by alternating user and assistant   *)
(* turns.  From there the same operations run on conversation "a"; a       *)
(* clear either deletes every row or fails at its listing.                 *)
(***************************************************************************)
RoleOf(i) == IF i % 2 = 1 THEN "user" ELSE "assistant"

LongList(k) == [i \in 1..k |-> Turn(RoleOf(i), "x", Resolution * i)]

LongTable(k) == {Entity("a", RoleOf(i), "x", Resolution * i) : i \in 1..k}

InitLong ==
    \/ \E k \in (MemoryKeep - MaxOver)..MemoryKeep :
        Constructed(Construct("", "", "", "", FALSE, "created"), {},
                    [id \in {"a"} |-> LongList(k)])
    \/ \E k \in (keep_count - 1)..(keep_count + MaxOver) :
        Constructed(Construct("", "acct", "", "", FALSE, "exists"), LongTable(k), <<>>)

NsLong == {0, max_messages_default, MemoryKeep + 1}

NextLong ==
    \/ get_conversation_history({"a"}, NsLong, Fails)
    \/ add_message({"a"}, Roles, Fails)
    \/ clear_conversation({"a"}, {0, 1})
    \/ get_conversation_stats({"a"}, Fails)

SpecLong == InitLong /\ [][NextLong]_vars

(***************************************************************************)
(* Every constructor call: both arguments and both environment variables   *)
(* set or not, every outcome of building the client and of create_table.   *)
(* From there one conversation is used, with one role.                     *)
(***************************************************************************)
InitCtor ==
    \E arg_conn, env_conn \in ConnectionStrings, arg_acct, env_acct \in AccountNames,
       client_raises \in BOOLEAN, create_table \in CreateTableOutcomes :
        LET c == Construct(arg_conn, arg_acct, env_conn, env_acct, client_raises, create_table)
        IN  Constructed(c, {}, c.memory_storage)

NextCtor ==
    \/ get_conversation_history({"a"}, {0, 2}, {0, 1})
    \/ add_message({"a"}, {"user"}, {0, 1})
    \/ clear_conversation({"a"}, {0, 1})
    \/ get_conversation_stats({"a"}, {0, 1})

SpecCtor == InitCtor /\ [][NextCtor]_vars

(***************************************************************************)
(* The bridge on its own: process_query called with every query and        *)
(* history of the sets below, the network and the backend answering in     *)
(* every way of Nets.  The storage object is not involved.                 *)
(***************************************************************************)
\* how many turns the history passed to process_query holds at most
MaxHistory == 2

Queries == {<<"q">>, <<"h", "i">>}

\* the history lists: k turns, user and assistant alternating
HistoryList(k) ==
    [i \in 1..k |-> [role |-> RoleOf(i), content |-> IF i % 2 = 1 THEN "q0" ELSE "a0"]]

Histories == {None} \cup {ListOf(HistoryList(k)) : k \in 0..MaxHistory}

\* data points and flat citations, complete and incomplete
PointFull ==
    Dict(<<"sourcefile", "content", "sourcepage">>, <<Str("f.pdf"), Str("c"), Str("p1")>>)
PointTitle == Dict(<<"title">>, <<Str("T")>>)
PointNullContent == Dict(<<"sourcefile", "content">>, <<Str("g.pdf"), Null>>)
CitationFull ==
    Dict(<<"title", "content", "url", "filepath">>,
         <<Str("HR Policy"), Str("..."), Str("p1"), Str("hr.pdf")>>)
CitationUrl == Dict(<<"url">>, <<Str("p2")>>)

\* a key of a body: left out, or present with one of some values
Field(k, values) == {Dict(<<>>, <<>>)} \cup {Dict(<<k>>, <<v>>) : v \in values}

\* the dictionary with the keys of both
Merge(a, b) == Dict(a.keys \o b.keys, a.vals \o b.vals)

MessageFields ==
    Field("message", {Dict(<<"content">>, <<Str("A")>>),
                      Dict(<<"role">>, <<Str("assistant")>>),
                      Str("the content"), Null})
AnswerFields == Field("answer", {Str("B")})
ContextFields ==
    Field("context",
          {Dict(<<"data_points">>, <<dp>>) :
              dp \in {List(<<>>), List(<<PointFull>>), List(<<PointTitle, PointNullContent>>),
                      List(<<Str("x"), PointFull>>),
                      Dict(<<"text">>, <<List(<<Str("x")>>)>>), Null}}
          \cup {Dict(<<"thoughts">>, <<Str("x")>>), Null})
CitationsFields ==
    Field("citations", {List(<<>>), List(<<CitationFull>>), List(<<CitationUrl, CitationFull>>),
                        List(<<Str("x")>>)})

\* the bodies of a 200 response that json() parses: objects that vary in
\* their answer part or in their citation part, and values that are no object
Bodies ==
    {Merge(m, a) : m \in MessageFields, a \in AnswerFields}
    \cup {Merge(Merge(m, Dict(<<"answer">>, <<Str("B")>>)), Merge(c, f)) :
              m \in Field("message", {Dict(<<"content">>, <<Str("A")>>)}),
              c \in ContextFields, f \in CitationsFields}
    \cup {List(<<>>), Str("x"), Null}

Reads == {"ok", "timeout", "error", "invalid"}

Nets ==
    {Outcome(sent, 0, "ok", Null) : sent \in {"timeout", "error"}}
    \cup {Outcome("response", 200, read, Null) : read \in Reads \ {"ok"}}
    \cup {Outcome("response", 200, "ok", body) : body \in Bodies}
    \cup {Outcome("response", status, read, Str("x")) :
              status \in {204, 400, 401, 403, 404, 429, 500, 503}, read \in Reads}

call_process_query(queries, histories, nets) ==
    \E query \in queries, history \in histories, net \in nets :
        /\ rag' = RagCall("process_query", query, history, net,
                          process_query(query, history, net))
        /\ UNCHANGED <<storage_vars, writer_vars, bot_vars>>

InitBridge ==
    Constructed(Construct("", "", "", "", FALSE, "created"), {}, <<>>)

NextBridge == call_process_query(Queries, Histories, Nets)

SpecBridge == InitBridge /\ [][NextBridge]_vars

(***************************************************************************)
(* The bot: activities arrive one at a time for two conversations; each is *)
(* handled to its end before the next.  The bridge is the one above, the   *)
(* network answering in one of BotNets.                                    *)
(***************************************************************************)
\* how many exchanges (user turn and assistant turn) a conversation holds
\* before no further question is asked in it
MaxExchanges == 1

BotNets ==
    {Outcome("response", 200, "ok",
             Dict(<<"answer", "citations">>, <<Str("B"), List(<<CitationFull>>)>>)),
     Outcome("response", 200, "ok",
             Dict(<<"message", "context">>,
                  <<Dict(<<"content">>, <<Str("A")>>),
                    Dict(<<"data_points">>, <<List(<<PointNullContent>>)>>)>>)),
     Outcome("timeout", 0, "ok", Null)}

SendFails == {"none", "first", "all"}

\* the bot after a turn that came to r
Handled_(r) ==
    /\ conversation_state' = r.cs
    /\ turn' = r.turn

\* the question of the exchanges a long-lived bot holds at the start
EarlierQuestion == <<"o", "l", "d">>

\* the questions in the history that were asked since the start
Asked(history) ==
    Cardinality({i \in DOMAIN history :
                    history[i].role = "user" /\ history[i].content # EarlierQuestion})

on_message_activity(activities, sendfails, nets, exchanges) ==
    \E activity \in activities, sendfail \in sendfails :
        /\ \/ commands[activity] # "none"
           \/ cleaned[activity] = <<>>
           \/ Asked(get_history(conversation_state, activity.conversation)) < exchanges
        /\ \E net \in IF commands[activity] = "none" /\ cleaned[activity] # <<>>
                      THEN nets ELSE {Outcome("timeout", 0, "ok", Null)} :
               Handled_(handle_message(conversation_state, activity, sendfail, net))
        /\ UNCHANGED <<storage_vars, writer_vars, bridge_vars, rendered, inflight>>

InitBot ==
    Constructed(Construct("", "", "", "", FALSE, "created"), {}, <<>>)

NextBot == on_message_activity(Activities, SendFails, BotNets, MaxExchanges)

SpecBot == InitBot /\ [][NextBot]_vars

(***************************************************************************)
(* The bot late in a conversation: "a" holds 10 - MaxOver to 10 earlier    *)
(* exchanges, so that the next ones reach the cut of the list at 20.       *)
(***************************************************************************)
EarlierExchanges(k) ==
    [i \in 1..(2 * k) |->
        IF i % 2 = 1 THEN [role |-> "user", content |-> EarlierQuestion]
        ELSE [role |-> "assistant", content |-> Str("A")]]

InitBotLong ==
    \E k \in (10 - MaxOver)..10 :
        ConstructedBot(Construct("", "", "", "", FALSE, "created"), {}, <<>>, RenderIdle,
                       [id \in {"a"} |-> EarlierExchanges(k)])

NextBotLong ==
    on_message_activity({activity \in Activities : activity.conversation = "a"},
                        {"none", "all"}, BotNets, MaxExchanges + 1)

SpecBotLong == InitBotLong /\ [][NextBotLong]_vars

(***************************************************************************)
(* format_response_card alone: a response of Responses is handed to it.    *)
(***************************************************************************)
\* how many citations a response holds at most
MaxCitations == 4

\* the text of n characters c
RECURSIVE Rep(_, _)
Rep(c, n) ==
    IF n = 0 THEN ""
    ELSE IF n % 2 = 0 THEN Rep(c, n \div 2) \o Rep(c, n \div 2)
    ELSE c \o Rep(c, n - 1)

\* citations as format_response returns them: with a content that is short,
\* 200 characters long, longer, or None (a data point whose content is null)
CardCitations ==
    {[title |-> Str("short"), content |-> Str("c"), url |-> Str("p1"),
      filepath |-> Str("f.pdf")],
     [title |-> Str("at the limit"), content |-> Str(Rep("x", 200)), url |-> Str(""),
      filepath |-> Str("")],
     [title |-> Str("long"), content |-> Str(Rep("y", 201)), url |-> Str(""),
      filepath |-> Str("")],
     [title |-> Str("g.pdf"), content |-> Null, url |-> Str(""), filepath |-> Str("g.pdf")]}

\* the answers: short, and longer than 200 characters
CardAnswers == {Str("B"), Str(Rep("z", 201))}

Responses ==
    {[answer |-> a, citations |-> c] :
        a \in CardAnswers,
        c \in UNION {[1..n -> CardCitations] : n \in 0..MaxCitations}}

call_format_response_card ==
    /\ rendered.op = "none"
    /\ rendered' = Rendering("format_response_card", rendered.response)
    /\ UNCHANGED <<storage_vars, writer_vars, bridge_vars, conversation_state, turn, inflight>>

InitCard ==
    \E response \in Responses :
        ConstructedWith(Construct("", "", "", "", FALSE, "created"), {}, <<>>,
                        Rendering("none", response))

NextCard == call_format_response_card

SpecCard == InitCard /\ [][NextCard]_vars

(***************************************************************************)
(* Turns in flight.  on_message_activity is a coroutine: a turn with a     *)
(* question runs from its start to session.post without a pause, waits     *)
(* there for the backend while other turns run, and runs on from the reply *)
(* of the bridge to its send.  inflight lists the turns in their order of   *)
(* arrival; begun and ended number the starts and the replies in the order *)
(* they happen.                                                            *)
(***************************************************************************)
\* how many turns arrive
MaxTurns == 3

\* the activities of these turns: the question, in each conversation
TurnActivities == {activity \in Activities : activity.text = Question}

\* how many turns have had their reply
Ended(turns) == Cardinality({i \in DOMAIN turns : turns[i].state = "done"})

\* a turn that waits for the bridge: the request it posted holds the history
\* as get_conversation_history returned it at the start of the turn
Waiting(activity, history, turns) ==
    [activity |-> activity, id |-> activity.conversation, query |-> cleaned[activity],
     history |-> history,
     posted |-> post(payload(cleaned[activity], ListOf(history))),
     state |-> "waiting", begun |-> Len(turns) + Ended(turns) + 1, ended |-> 0,
     result |-> [answer |-> Null, citations |-> <<>>]]

\* on_message_activity up to the bridge call
begin_turn(activities) ==
    \E activity \in activities :
        /\ Len(inflight) < MaxTurns
        /\ inflight' = Append(inflight,
                              Waiting(activity,
                                      get_history(conversation_state, activity.conversation),
                                      inflight))
        /\ UNCHANGED <<storage_vars, writer_vars, bridge_vars, conversation_state, turn, rendered>>

\* the turn w once the bridge answered r
Done(w, r, turns) ==
    [w EXCEPT !.state = "done", !.ended = Len(turns) + Ended(turns) + 1,
              !.result = r.result]

\* (a slip: the list read at the start of the turn is the one extended and
\* stored)
resume_turn_from_snapshot(w, sendfail, net, r) ==
    after_try_block(w.activity, sendfail,
                    answer_block(DictSet(conversation_state, w.id, w.history),
                                 w.id, w.query, sendfail,
                                 RagCall("process_query", w.query, ListOf(w.history), net, r),
                                 r))

\* on_message_activity from the answer of the bridge on, for the turn w
resume_turn(w, sendfail, net, r) ==
    after_try_block(w.activity, sendfail,
                    answer_block(conversation_state, w.id, w.query, sendfail,
                                 RagCall("process_query", w.query, ListOf(w.history), net, r),
                                 r))

end_turn(sendfails, nets) ==
    \E i \in DOMAIN inflight, sendfail \in sendfails, net \in nets :
        /\ inflight[i].state = "waiting"
        /\ Handled_(resume_turn(inflight[i], sendfail, net,
                                process_query(inflight[i].query,
                                              ListOf(inflight[i].history), net)))
        /\ inflight' = [inflight EXCEPT
                           ![i] = Done(inflight[i],
                                       process_query(inflight[i].query,
                                                     ListOf(inflight[i].history), net),
                                       inflight)]
        /\ UNCHANGED <<storage_vars, writer_vars, bridge_vars, rendered>>

InitTurns ==
    Constructed(Construct("", "", "", "", FALSE, "created"), {}, <<>>)

NextTurns ==
    \/ begin_turn(TurnActivities)
    \/ end_turn({"none", "all"}, BotNets)

SpecTurns == InitTurns /\ [][NextTurns]_vars

(***************************************************************************)
(* The same with clear commands of conversation "a" arriving among its     *)
(* turns.  A clear awaits nothing but its own send, so it is one step; it  *)
(* is entered in `inflight` with the time it ran.                          *)
(***************************************************************************)
Cleared(activity, turns) ==
    [Waiting(activity, <<>>, turns) EXCEPT
        !.state = "cleared", !.ended = Len(turns) + Ended(turns) + 1]

\* on_message_activity for a clear command
clear_turn(activities, sendfails) ==
    \E activity \in activities, sendfail \in sendfails :
        /\ commands[activity] = "clear"
        /\ Len(inflight) < MaxTurns
        /\ Handled_(handle_message(conversation_state, activity, sendfail,
                                   Outcome("timeout", 0, "ok", Null)))
        /\ inflight' = Append(inflight, Cleared(activity, inflight))
        /\ UNCHANGED <<storage_vars, writer_vars, bridge_vars, rendered>>

NextClear ==
    \/ begin_turn({activity \in TurnActivities : activity.conversation = "a"})
    \/ end_turn({"none", "all"}, BotNets)
    \/ clear_turn({activity \in Activities : activity.conversation = "a"}, {"none", "all"})

SpecClear == InitTurns /\ [][NextClear]_vars

(***************************************************************************)
(* add_message on the table, request by request.  The methods are          *)
(* synchronous, so one process runs them one at a time; several processes  *)
(* that share the table interleave at the requests they send: the          *)
(* create_entity, the listing of the retention pass, each delete_entity.   *)
(* delete_entity for a row that is already gone either does nothing or     *)
(* raises, as the SDK version has it: both outcomes are taken.             *)
(***************************************************************************)
OtherRows == {Entity("b", RoleOf(i), "x", Resolution * i) : i \in 1..2}

Pass(pc, id, todo) == [pc |-> pc, id |-> id, todo |-> todo]

\* add_message up to create_entity; an exception ends the call (False)
writer_create(ids) ==
    \E w \in Writers, id \in ids, now \in Instants, fail \in {0, 1} :
        /\ passes[w].pc = "idle"
        /\ clock' = now
        /\ IF fail = 1 \/ KeysTaken(table, id, strftime(utcnow(now)))
           THEN UNCHANGED <<table, passes>>
           ELSE /\ table' = table \cup {Entity(id, "user", "x", utcnow(now))}
                /\ passes' = [passes EXCEPT ![w] = Pass("listing", id, <<>>)]
        /\ UNCHANGED <<storage_account_name, connection_string, table_service_client,
                       use_memory_fallback, memory_storage, appended, ret>>
        /\ UNCHANGED <<bridge_vars, bot_vars>>

\* _cleanup_old_messages up to the slice: list, count, sort, slice
writer_list ==
    \E w \in Writers, fail \in {0, 1} :
        /\ passes[w].pc = "listing"
        /\ \E listing \in QueryOrders(Partition(table, passes[w].id)) :
               passes' = [passes EXCEPT ![w] =
                   IF fail = 0 /\ Len(listing) > keep_count
                   THEN Pass("deleting", passes[w].id, messages_to_delete(listing))
                   ELSE PassIdle]
        /\ UNCHANGED <<storage_vars, bridge_vars, bot_vars>>

\* one turn of the delete loop; an exception ends the pass
writer_delete ==
    \E w \in Writers, fail \in {0, 1} :
        /\ passes[w].pc = "deleting"
        /\ IF fail = 1
           THEN /\ passes' = [passes EXCEPT ![w] = PassIdle]
                /\ table' = table
           ELSE /\ table' = delete_entity(table, passes[w].id, Head(passes[w].todo).RowKey)
                /\ passes' = [passes EXCEPT ![w] =
                       IF Len(passes[w].todo) = 1 THEN PassIdle
                       ELSE Pass("deleting", passes[w].id, Tail(passes[w].todo))]
        /\ UNCHANGED <<storage_account_name, connection_string, table_service_client,
                       use_memory_fallback, memory_storage, clock, appended, ret>>
        /\ UNCHANGED <<bridge_vars, bot_vars>>

InitWriters ==
    \E k \in (keep_count - 1)..(keep_count + MaxOver) :
        Constructed(Construct("", "acct", "", "", FALSE, "exists"),
                    LongTable(k) \cup OtherRows, <<>>)

NextWriters ==
    \/ writer_create({"a"})
    \/ writer_list
    \/ writer_delete

SpecWriters == InitWriters /\ [][NextWriters]_vars

(***************************************************************************)
(* Properties.                                                             *)
(***************************************************************************)
\* the last min(n, Len(s)) elements of s
LastN(s, n) == SubSeq(s, Len(s) - Min(n, Len(s)) + 1, Len(s))

\* the turns stored for a conversation, oldest first: the list in memory, or
\* the rows of the partition by row key
StoredIn(fallback, ms, tbl, id) ==
    IF fallback THEN DictGet(ms, id) ELSE Messages(Listed(Partition(tbl, id)))

Stored(id) == StoredIn(use_memory_fallback, memory_storage, table, id)

\* the turns stored for id once the step is taken
StoredNext(id) == StoredIn(use_memory_fallback', memory_storage', table', id)

NonDecreasing(w) ==
    \A i \in 1..(Len(w) - 1) : ~StrLess(w[i + 1].timestamp, w[i].timestamp)

\* C1: get_conversation_history(id, n) returns at most n turns, n = 0
\* included, ordered non-decreasing by timestamp, on both backends.
C1_ReadAtMostN ==
    ret.op = "get" => Len(ret.result) <= ret.n /\ NonDecreasing(ret.result)

\* C2: get_conversation_history(id, n) returns exactly the min(n, k) most
\* recent of the k stored turns, oldest first (stated for the reads in which
\* no backend request failed).
C2_ReadIsRecentTail ==
    (ret.op = "get" /\ ret.logged = <<>>) => ret.result = LastN(Stored(ret.id), ret.n)

\* the windows get_conversation_history(id, n) can return in this state
ReadsIn(fallback, ms, tbl, id, n, fails) ==
    IF fallback THEN {get_history_memory(ms, id, n)}
    ELSE {get_history_table(l, n, f).result :
             l \in QueryOrders(Partition(tbl, id)), f \in fails}

ReadOutcomes(id, n) ==
    ReadsIn(use_memory_fallback, memory_storage, table, id, n, {0, 1})

\* the windows it can return once the step is taken
ReadOutcomesNext(id, n) ==
    ReadsIn(use_memory_fallback', memory_storage', table', id, n, {0, 1})

\* the same once the step is taken, when the listing does not fail
ReadsServedNext(id, n) ==
    ReadsIn(use_memory_fallback', memory_storage', table', id, n, {0})

\* C3, as claimed: after any add_message(id, role, content), a read with
\* n >= 1 returns a window that ends with the turn passed in.
C3_Original ==
    ret.op = "add" =>
        \A n \in Ns \ {0} : \A w \in ReadOutcomes(ret.id, n) :
            w # <<>> /\ w[Len(w)] = Turn(ret.role, ret.content, ret.t)

\* C3, amended: after an add_message that returned True, a read with n >= 1
\* whose listing does not fail returns the last n turns of the history as it
\* was before the call followed by the one new turn: the new turn is the
\* last element, with the role and content passed in, and nothing else was
\* added.
C3_AppendThenRead ==
    [][(ret'.op = "add" /\ ret'.result = TRUE) =>
        LET new == Turn(ret'.role, ret'.content, ret'.t)
            all == Append(Stored(ret'.id), new)
        IN  \A n \in Ns \ {0} : \A w \in ReadsServedNext(ret'.id, n) :
                /\ w # <<>>
                /\ w[Len(w)] = new
                /\ w = LastN(all, Len(w))
                /\ Len(w) = Min(n, Len(StoredNext(ret'.id)))
                /\ Len(StoredNext(ret'.id)) <= Len(all)]_vars

C3_Witness ==
    /\ ret.op = "add" /\ ret.result = TRUE /\ ~use_memory_fallback
    /\ Cardinality(Partition(table, ret.id)) >= 3

\* C4, as claimed: after clear_conversation(id) returns, every read of id
\* returns an empty window.
C4_Original ==
    ret.op = "clear" =>
        \A n \in Ns : \A w \in ReadOutcomes(ret.id, n) : w = <<>>

\* C4, amended: after clear_conversation(id) returns True, every read of id
\* returns an empty window, and the turns stored for every other id are the
\* ones stored before.
C4_ClearThenRead ==
    [][(ret'.op = "clear" /\ ret'.result = TRUE) =>
        /\ \A n \in Ns : \A w \in ReadOutcomesNext(ret'.id, n) : w = <<>>
        /\ \A other \in Ids \ {ret'.id} : StoredNext(other) = Stored(other)]_vars

C4_Witness ==
    /\ ret.op = "clear" /\ ret.result = TRUE /\ ~use_memory_fallback
    /\ Len(ret.calls) >= 4
    /\ \E other \in Ids \ {ret.id} : Partition(table, other) # {}

\* the k rows of S with the greatest row keys
Top(S, k) == {e \in S : Cardinality({f \in S : RowKeyLess(e, f)}) < k}

\* C5: on the table backend, an add_message to a conversation that already
\* holds keep_count rows or more, whose retention pass meets no backend
\* error, leaves exactly keep_count rows: those with the greatest row keys
\* among the old rows and the new one.
C5_Retention ==
    [][(/\ ret'.op = "add" /\ ~use_memory_fallback
        /\ ret'.result = TRUE /\ ret'.logged = <<>>
        /\ Cardinality(Partition(table, ret'.id)) >= keep_count) =>
        LET written == Partition(table, ret'.id)
                       \cup {Entity(ret'.id, ret'.role, ret'.content, ret'.t)}
        IN  /\ Cardinality(Partition(table', ret'.id)) = keep_count
            /\ Partition(table', ret'.id) = Top(written, keep_count)]_vars

C5_Witness ==
    /\ ret.op = "add" /\ ~use_memory_fallback /\ ret.result = TRUE /\ ret.logged = <<>>
    /\ Len(ret.calls) >= 6 /\ ret.calls[6] = "delete_entity"
    /\ Cardinality(Partition(table, ret.id)) = keep_count

\* C6: in memory, every conversation's list holds at most MemoryKeep turns
\* and is the last min(MemoryKeep, total) of the turns appended to it since
\* its last clear, in append order; so no read returns more than MemoryKeep
\* turns, whatever n.
C6_MemoryBound ==
    use_memory_fallback =>
        \A id \in DOMAIN memory_storage :
            /\ Len(memory_storage[id]) <= MemoryKeep
            /\ memory_storage[id] = LastN(DictGet(appended, id), MemoryKeep)
            /\ \A n \in NsLong : Len(get_history_memory(memory_storage, id, n)) <= MemoryKeep

C6_Witness ==
    /\ use_memory_fallback /\ ret.op = "add"
    /\ Len(DictGet(appended, ret.id)) > MemoryKeep
    /\ Len(memory_storage[ret.id]) = MemoryKeep

\* C7: once use_memory_fallback is true it stays true, and no later call
\* makes a call on the table client or changes the table.
C7_FallbackOneWay ==
    [][use_memory_fallback =>
        use_memory_fallback' /\ ret'.calls = <<>> /\ table' = table]_vars

C7_Witness ==
    /\ use_memory_fallback /\ table_service_client # "none"
    /\ ret.op = "add" /\ memory_storage # <<>>

\* C8: the constructor tries the managed-identity table when an account
\* name is available, otherwise the connection-string table when a
\* connection string is available, otherwise nothing; it tries no second
\* option, ends in memory exactly when nothing was selected or the selected
\* option failed, and raises nothing.
C8_BackendPriority ==
    ret.op = "__init__" =>
        LET selected == IF storage_account_name # "" THEN "identity"
                        ELSE IF connection_string # "" THEN "connstr" ELSE "none"
        IN  /\ ret.raised = FALSE
            /\ selected = "none" =>
                   ret.calls = <<>> /\ use_memory_fallback /\ table_service_client = "none"
            /\ selected # "none" =>
                   /\ ret.calls # <<>> /\ ret.calls[1] = selected
                   /\ \A i \in 2..Len(ret.calls) : ret.calls[i] = "create_table"
                   /\ use_memory_fallback <=> ret.logged # <<>>
                   /\ ~use_memory_fallback => table_service_client = selected

C8_Witness ==
    /\ ret.op = "__init__" /\ storage_account_name # "" /\ connection_string # ""
    /\ use_memory_fallback /\ ret.calls = <<"identity">>

\* C9: add_message raises nothing.  In memory it returns True.  On the table
\* backend it returns True exactly when the new row was written, and when it
\* returns False the table is what it was before the call.
C9_AddNeverRaises ==
    [][ret'.op = "add" =>
        LET e == Entity(ret'.id, ret'.role, ret'.content, ret'.t)
        IN  /\ ret'.raised = FALSE
            /\ ret'.result \in BOOLEAN
            /\ use_memory_fallback => ret'.result = TRUE
            /\ ~use_memory_fallback =>
                   /\ ret'.result = TRUE <=> (e \in table' /\ e \notin table)
                   /\ ret'.result = FALSE => table' = table]_vars

C9_Witness ==
    /\ ret.op = "add" /\ ~use_memory_fallback /\ ret.result = FALSE
    /\ ret.logged = <<"add">> /\ table # {}

StatsOf(messages, kind) ==
    [message_count |-> Len(messages),
     user_messages |-> Cardinality({i \in DOMAIN messages : messages[i].role = "user"}),
     assistant_messages |->
         Cardinality({i \in DOMAIN messages : messages[i].role = "assistant"}),
     storage_type |-> kind]

StatsFrame ==
    UNCHANGED <<memory_storage, table, use_memory_fallback, table_service_client,
                storage_account_name, connection_string>>

\* C10, as claimed: get_conversation_stats changes nothing, and reports the
\* number of turns stored for id, split by role, and the backend in use.
C10_Original ==
    [][ret'.op = "stats" =>
        /\ StatsFrame
        /\ ret'.result = StatsOf(Stored(ret'.id),
                                 IF use_memory_fallback THEN "memory" ELSE "azure_table")]_vars

\* C10, amended: get_conversation_stats changes no stored turn, creates no
\* entry and leaves the fallback flag alone.  Unless its listing fails, it
\* reports the number of turns stored for id, the users and the assistants
\* among them (which add up to the total when there is no other role) and
\* the backend in use; when the listing fails it reports three zeros and
\* the storage kind "error".
C10_StatsReadOnly ==
    [][ret'.op = "stats" =>
        /\ StatsFrame
        /\ ret'.logged = <<>> =>
               /\ ret'.result = StatsOf(Stored(ret'.id),
                                        IF use_memory_fallback THEN "memory"
                                        ELSE "azure_table")
               /\ (\A i \in DOMAIN Stored(ret'.id) :
                       Stored(ret'.id)[i].role \in {"user", "assistant"}) =>
                      ret'.result.user_messages + ret'.result.assistant_messages
                          = ret'.result.message_count
        /\ ret'.logged # <<>> =>
               /\ ~use_memory_fallback
               /\ ret'.result = StatsOf(<<>>, "error")]_vars

C10_Witness ==
    /\ ret.op = "stats" /\ ret.logged = <<>> /\ ~use_memory_fallback
    /\ ret.result.user_messages >= 1 /\ ret.result.assistant_messages >= 1
    /\ ret.result.message_count = 3

\* the memory dictionary with the list of id alone
Only(ms, id) == [x \in (DOMAIN ms) \cap {id} |-> ms[x]]

\* the step just taken, an operation for conversation id, did to the turns
\* of id what that operation does to a store that holds the turns of id and
\* no others
OnItsOwn(id) ==
    IF ret'.op \in {"get", "stats"} THEN StoredNext(id) = Stored(id)
    ELSE IF memory_branch
    THEN DictGet(memory_storage', id)
             = IF ret'.op = "add"
               THEN DictGet(add_message_memory(Only(memory_storage, id), id, ret'.role,
                                               ret'.content, ret'.t), id)
               ELSE <<>>
    ELSE LET own == Partition(table, id)
         IN  IF ret'.op = "add"
             THEN \E fail \in Fails \cap {0, 1}, cfail \in Fails :
                      LET e == Entity(id, ret'.role, ret'.content, ret'.t)
                          r == add_message_table(own, id, ret'.role, ret'.content, ret'.t,
                                                 fail, Listed(own \cup {e}), cfail)
                      IN  r.table = Partition(table', id) /\ r.result = ret'.result
             ELSE \E fail \in Fails, listing \in QueryOrders(own) :
                      LET r == clear_conversation_table(own, id, listing, fail)
                      IN  r.table = Partition(table', id) /\ r.result = ret'.result

\* C28: an operation for one conversation leaves the turns of every other
\* conversation as they were, in the table, in memory and as a read returns
\* them, and does to the turns of its own conversation what it does when the
\* store holds no other conversation.  So the history of a conversation after
\* any interleaved run is its history after its own operations alone.
C28_Independence ==
    [][/\ \A other \in Ids \ {ret'.id} :
              /\ Partition(table', other) = Partition(table, other)
              /\ DictGet(memory_storage', other) = DictGet(memory_storage, other)
              /\ StoredNext(other) = Stored(other)
       /\ OnItsOwn(ret'.id)]_vars

C28_Witness ==
    /\ ret.op = "clear" /\ ret.id = "a" /\ ret.result = TRUE
    /\ ~use_memory_fallback
    /\ Stored("a") = <<>>
    /\ Len(Stored("b")) >= 2

\* the step just taken is an add_message on the table whose row write came
\* back and whose retention pass failed, at the listing or at a delete
RetentionFailed ==
    /\ ret'.op = "add" /\ ~use_memory_fallback
    /\ ret'.logged = <<"cleanup">>

\* C30: when the row write of add_message succeeds and the retention pass
\* after it fails, add_message returns True and raises nothing, the new row
\* is stored, only rows of that conversation older than it may be gone, and
\* the fallback flag is as it was.
C30_RetentionFailure ==
    [][RetentionFailed =>
        LET e == Entity(ret'.id, ret'.role, ret'.content, ret'.t)
        IN  /\ ret'.result = TRUE
            /\ ret'.raised = FALSE
            /\ e \in table' /\ e \notin table
            /\ table' \subseteq table \cup {e}
            /\ \A x \in table \ table' : x.PartitionKey = ret'.id /\ RowKeyLess(x, e)
            /\ use_memory_fallback' = use_memory_fallback
            /\ memory_storage' = memory_storage]_vars

\* the retention pass failed at its listing and the conversation holds more
\* than keep_count rows
C30_Witness ==
    /\ ret.op = "add" /\ ~use_memory_fallback /\ ret.result = TRUE
    /\ ret.logged = <<"cleanup">>
    /\ ret.calls = <<"get_table_client", "create_entity", "get_table_client", "query_entities">>
    /\ Cardinality(Partition(table, ret.id)) > keep_count

\* the result by which an operation reports that it failed
FailureResult(op) ==
    CASE op = "get"   -> ret'.result = <<>>
      [] op = "add"   -> ret'.result = FALSE
      [] op = "clear" -> ret'.result = FALSE
      [] OTHER        -> ret'.result.storage_type = "error" /\ ret'.result.message_count = 0

\* C31: an operation never changes use_memory_fallback and never raises,
\* whatever fails inside it.  A failure of the operation itself is logged
\* and reported by its result: the empty list, False, or the zeroed
\* statistics of kind "error"; a failure of the retention pass alone is
\* logged and add_message returns True.
C31_FailureIsolated ==
    [][/\ use_memory_fallback' = use_memory_fallback
       /\ ret'.raised = FALSE
       /\ (ret'.logged # <<>> /\ ret'.logged # <<"cleanup">>) => FailureResult(ret'.op)
       /\ (ret'.op = "add" /\ ret'.logged = <<"cleanup">>) => ret'.result = TRUE]_vars

\* a durable store after a failed operation
C31_Witness ==
    /\ ~use_memory_fallback /\ table_service_client # "none"
    /\ ret.op = "stats" /\ ret.logged # <<>>
    /\ ret.result.storage_type = "error"

\* the turns of conversation id stored before a step, by their keys
KeysBefore(id) ==
    IF use_memory_fallback
    THEN {DictGet(memory_storage, id)[i].timestamp : i \in DOMAIN DictGet(memory_storage, id)}
    ELSE {e.RowKey : e \in Partition(table, id)}

\* the key under which a successful add_message wrote its turn
KeyWritten == IF use_memory_fallback THEN isoformat(ret'.t) ELSE strftime(ret'.t)

\* C32: every successful add_message writes a turn whose timestamp key is
\* strictly greater than the key of every turn the conversation holds,
\* also when two appends read the same clock value.
C32_StrictlyIncreasing ==
    [][(ret'.op = "add" /\ ret'.result = TRUE)
           => \A k \in KeysBefore(ret'.id) : StrLess(k, KeyWritten)]_vars

\* the rows of the partition that carry the row key of the instant t
SameKey(tbl, id, t) == {e \in Partition(tbl, id) : e.RowKey = strftime(t)}

\* C38: on the table, an add_message whose row key is already taken in its
\* conversation returns False, leaves the table as it was (the first turn is
\* not overwritten and no further row appears), and makes no request after
\* the refused create_entity: no retention pass runs.
C38_KeyCollision ==
    [][(ret'.op = "add" /\ ~use_memory_fallback /\ SameKey(table, ret'.id, ret'.t) # {})
           => /\ ret'.result = FALSE
              /\ ret'.raised = FALSE
              /\ table' = table
              /\ ret'.calls \in {<<"get_table_client">>,
                                 <<"get_table_client", "create_entity">>}]_vars

\* the call before last wrote a turn and the last call, for another turn at
\* the same instant, was refused
C38_Witness ==
    /\ ret.op = "add" /\ ~use_memory_fallback /\ ret.result = FALSE
    /\ ret.calls = <<"get_table_client", "create_entity">>
    /\ \E e \in SameKey(table, ret.id, ret.t) :
           /\ e.Role # ret.role
           /\ e.CreatedAt > ClockStart

\* the delete_entity requests of the last operation
DeletesSent(calls) == Cardinality({i \in DOMAIN calls : calls[i] = "delete_entity"})

\* C39: clear_conversation on the table only removes rows, and only rows of
\* its conversation.  It returns True exactly when every row of the
\* conversation is gone, one delete_entity each.  When it returns False
\* after d delete requests, the d - 1 rows deleted before the failing
\* request stay deleted and every other row is as it was; when the listing
\* itself failed the table is as it was.
C39_ClearNotAtomic ==
    [][(ret'.op = "clear" /\ ~use_memory_fallback)
           => /\ table' \subseteq table
              /\ \A e \in table \ table' : e.PartitionKey = ret'.id
              /\ ret'.raised = FALSE
              /\ ret'.result = TRUE
                    => /\ Partition(table', ret'.id) = {}
                       /\ DeletesSent(ret'.calls) = Cardinality(Partition(table, ret'.id))
              /\ ret'.result = FALSE
                    => /\ ret'.logged = <<"clear">>
                       /\ Cardinality(table \ table')
                              = Max(DeletesSent(ret'.calls) - 1, 0)
                       /\ DeletesSent(ret'.calls) > 0 => Partition(table', ret'.id) # {}]_vars

\* the second delete of a clear failed: one row is gone, the rest remains
C39_Witness ==
    /\ ret.op = "clear" /\ ~use_memory_fallback /\ ret.result = FALSE
    /\ DeletesSent(ret.calls) = 2
    /\ Partition(table, ret.id) # {}
    /\ \E id \in Ids \ {ret.id} : Partition(table, id) # {}

\* C40: however the requests of several add_message calls on one
\* conversation interleave, a delete of a retention pass removes no row
\* that is among the keep_count rows with the greatest row keys of the
\* conversation at that moment and no row of another conversation, and the
\* conversation never drops below keep_count rows once it has that many (a
\* write adds exactly one row).
C40_RetentionInterleaved ==
    [][/\ \A e \in table \ table' :
              /\ e.PartitionKey = "a"
              /\ e \notin Top(Partition(table, "a"), keep_count)
       /\ Cardinality(Partition(table', "a"))
              >= Min(keep_count, Cardinality(Partition(table, "a"))
                                     + Cardinality(table' \ table))
       /\ Cardinality(table' \ table) <= 1]_vars

\* two passes overlapped: one is about to delete a row that the other has
\* already deleted, while the conversation holds more than keep_count rows
C40_Witness ==
    /\ \E w \in Writers :
           /\ passes[w].pc = "deleting"
           /\ Head(passes[w].todo) \notin table
    /\ Cardinality(Partition(table, "a")) > keep_count
    /\ OtherRows \subseteq table

(***************************************************************************)
(* Properties of the bridge.                                               *)
(***************************************************************************)
\* the last call came back with this status line
Responded(status) == rag.op = "process_query" /\ rag.net.sent = "response" /\ rag.net.status = status

\* the last call got a 200 response whose body json() parsed
Parsed == Responded(200) /\ rag.net.read = "ok"

\* the last call got a 200 response whose body json() parsed and on which
\* format_response raised nothing
Formatted == Parsed /\ ~format_response(rag.net.body).raised

\* a status that is neither 200 nor 401 nor a server error
OtherStatus(status) == status # 200 /\ status # 401 /\ status < 500

\* C11, as claimed: 401 gives the authentication answer, a status >= 500 the
\* service-unavailable answer, a timeout the taking-too-long answer and any
\* other status than 200 the could-not-process answer, all without citations.
C11_Original ==
    rag.op = "process_query" =>
        /\ rag.net.sent = "timeout" => rag.result = Answer(TakingTooLong)
        /\ rag.net.sent = "response" =>
               /\ rag.net.status = 401 => rag.result = Answer(AuthenticationError)
               /\ rag.net.status >= 500 => rag.result = Answer(ServiceUnavailable)
               /\ OtherStatus(rag.net.status) => rag.result = Answer(CouldNotProcess)

\* the classes of the outcomes other than a parsed 200 response
ClassAuth == rag.net.sent = "response" /\ rag.net.status = 401
ClassUnavailable == rag.net.sent = "response" /\ rag.net.status >= 500
ClassBodyRead ==
    rag.net.sent = "response" /\ (rag.net.status = 200 \/ OtherStatus(rag.net.status))
ClassTimeout == rag.net.sent = "timeout" \/ (ClassBodyRead /\ rag.net.read = "timeout")
ClassGeneric ==
    rag.net.sent = "response" /\ OtherStatus(rag.net.status) /\ rag.net.read = "ok"
ClassTransport ==
    rag.net.sent = "error" \/ (ClassBodyRead /\ rag.net.read \in {"error", "invalid"})

Count(flags) == Cardinality({i \in DOMAIN flags : flags[i]})

\* C11, amended: 401 gives the authentication answer; a status >= 500 the
\* service-unavailable answer; a timeout, before the response or while the
\* body of a response is read, the taking-too-long answer; any other status
\* than 200 whose body was read the could-not-process answer; and a
\* transport failure, which includes failing to read the body of such a
\* response, the trouble-connecting answer.  Citations are empty in all of
\* them, and exactly one applies to each outcome that is not a 200 response
\* with a parsed body.
C11_StatusMapping ==
    (rag.op = "process_query" /\ ~Parsed) =>
        /\ Count(<<ClassAuth, ClassUnavailable, ClassTimeout, ClassGeneric, ClassTransport>>) = 1
        /\ ClassAuth => rag.result = Answer(AuthenticationError)
        /\ ClassUnavailable => rag.result = Answer(ServiceUnavailable)
        /\ ClassTimeout => rag.result = Answer(TakingTooLong)
        /\ ClassGeneric => rag.result = Answer(CouldNotProcess)
        /\ ClassTransport => rag.result = Answer(TroubleConnecting)
        /\ rag.result.citations = <<>>

C11_Witness ==
    /\ Responded(500) /\ rag.result = Answer(ServiceUnavailable)
    /\ rag.given # None

\* the body is an object with the key, the value being an object / a list of
\* objects
HasKey(body, k) == IsDict(body) /\ CanItem(body, k)
HasPath(body, k, j) == HasKey(body, k) /\ IsDict(Item(body, k)) /\ CanItem(Item(body, k), j)
Path(body, k, j) == Item(Item(body, k), j)
Objects(v) == v.type = "list" /\ \A i \in DOMAIN v.vals : IsDict(v.vals[i])

\* variant A: message.content and context.data_points, a list of objects
VariantA(body) ==
    /\ HasPath(body, "message", "content")
    /\ HasPath(body, "context", "data_points")
    /\ Objects(Path(body, "context", "data_points"))

\* variant B: flat answer and flat citations, a list of objects, and nothing
\* of variant A
VariantB(body) ==
    /\ ~HasKey(body, "message") /\ ~HasKey(body, "context")
    /\ HasKey(body, "answer")
    /\ HasKey(body, "citations") /\ Objects(Item(body, "citations"))

\* neither the nested paths of variant A nor the flat fields of variant B
NoVariant(body) ==
    /\ ~HasPath(body, "message", "content") /\ ~HasPath(body, "context", "data_points")
    /\ ~HasKey(body, "answer") /\ ~HasKey(body, "citations")

\* field f of the citation is field g of its source, when the source has it
Carried(citation, f, source, g) == CanItem(source, g) => citation[f] = Item(source, g)

FromDataPoint(citation, point) ==
    /\ Carried(citation, "title", point, "sourcefile")
    /\ ~CanItem(point, "sourcefile") => Carried(citation, "title", point, "title")
    /\ Carried(citation, "content", point, "content")
    /\ Carried(citation, "url", point, "sourcepage")
    /\ Carried(citation, "filepath", point, "sourcefile")

FromCitation(citation, flat) ==
    \A f \in {"title", "content", "url", "filepath"} : Carried(citation, f, flat, f)

\* the citations are the data points, one to one and in order
CitesDataPoints(citations, points) ==
    /\ Len(citations) = Len(points.vals)
    /\ \A i \in DOMAIN citations : FromDataPoint(citations[i], points.vals[i])

\* the citations are the flat citations, one to one and in order
CitesCitations(citations, flat) ==
    /\ Len(citations) = Len(flat.vals)
    /\ \A i \in DOMAIN citations : FromCitation(citations[i], flat.vals[i])

\* C12: a parsed 200 body of variant A yields message.content and the data
\* points mapped one to one in order; one of variant B yields the flat answer
\* and the flat citations in order; one with neither shape yields "No answer
\* found" and no citations.
C12_Normalization ==
    Formatted =>
        LET body == rag.net.body IN
        /\ VariantA(body) =>
               /\ rag.result.answer = Path(body, "message", "content")
               /\ CitesDataPoints(rag.result.citations, Path(body, "context", "data_points"))
        /\ VariantB(body) =>
               /\ rag.result.answer = Item(body, "answer")
               /\ CitesCitations(rag.result.citations, Item(body, "citations"))
        /\ NoVariant(body) => rag.result = Answer(NoAnswerFound)

\* C13: message.content is the answer when present, otherwise the flat
\* answer when present; context.data_points (a list of objects) gives the
\* citations when present, otherwise the flat citations (a list of objects)
\* when present, also when there is a context object without data_points.
C13_DetectionOrder ==
    Formatted =>
        LET body == rag.net.body IN
        /\ HasPath(body, "message", "content") =>
               rag.result.answer = Path(body, "message", "content")
        /\ (~HasPath(body, "message", "content") /\ HasKey(body, "answer")) =>
               rag.result.answer = Item(body, "answer")
        /\ (HasPath(body, "context", "data_points")
            /\ Objects(Path(body, "context", "data_points"))) =>
               CitesDataPoints(rag.result.citations, Path(body, "context", "data_points"))
        /\ (~HasPath(body, "context", "data_points") /\ HasKey(body, "citations")
            /\ Objects(Item(body, "citations"))) =>
               CitesCitations(rag.result.citations, Item(body, "citations"))

\* the objects the citations of the last result were made of
Sources(body) ==
    IF HasPath(body, "context", "data_points")
    THEN Dicts(Iter(Path(body, "context", "data_points")))
    ELSE Iter(Item(body, "citations"))

\* C14: every citation returned for a parsed 200 body has its four fields,
\* none of them null, and a field its source does not have is the empty
\* string.
C14_CitationFields ==
    (Formatted /\ rag.result.citations # <<>>) =>
        LET body == rag.net.body
            flat == ~HasPath(body, "context", "data_points")
        IN  \A i \in DOMAIN rag.result.citations :
                LET c == rag.result.citations[i]
                    src == Sources(body)[i]
                    absent(k) == ~CanItem(src, k)
                IN  /\ DOMAIN c = {"title", "content", "url", "filepath"}
                    /\ \A f \in DOMAIN c : c[f].type = "str"
                    /\ (IF flat THEN absent("title")
                        ELSE absent("sourcefile") /\ absent("title")) => c.title = Str("")
                    /\ absent("content") => c.content = Str("")
                    /\ absent(IF flat THEN "url" ELSE "sourcepage") => c.url = Str("")
                    /\ absent(IF flat THEN "filepath" ELSE "sourcefile") => c.filepath = Str("")

\* C15: a 200 response whose body is not JSON, or is JSON with none of the
\* expected fields (an object without them, or a value that is no object),
\* yields "No answer found" without citations, and nothing is raised.
C15_MalformedBody ==
    (Responded(200) /\ (rag.net.read = "invalid"
                        \/ (Formatted /\ NoVariant(rag.net.body)))) =>
        rag.raised = FALSE /\ rag.result = Answer(NoAnswerFound)

\* C16: every call of process_query sends exactly one request, a POST to
\* /chat, whatever comes back: no second request after a timeout, a
\* transport error or a status other than 200.
C16_SinglePost ==
    rag.op = "process_query" =>
        /\ Len(rag.posts) = 1
        /\ rag.posts[1].method = "POST" /\ rag.posts[1].path = "/chat"

C16_Witness ==
    /\ rag.op = "process_query" /\ rag.net.sent = "timeout"
    /\ Len(rag.posts) = 1 /\ rag.result = Answer(TakingTooLong)

\* C17: the messages of the request are the turns of the history given, in
\* their order, followed by the user turn with the query (the query alone
\* for a history of None); the overrides are top 3, temperature 0.3 and both
\* minimum scores 0.0; the list the caller passed is what it was.
C17_RequestBody ==
    rag.op = "process_query" =>
        LET json == rag.posts[1].json
            turns == IF rag.given.none THEN <<>> ELSE rag.given.list
        IN  /\ Len(json.messages) = Len(turns) + 1
            /\ \A i \in DOMAIN turns : json.messages[i] = turns[i]
            /\ json.messages[Len(json.messages)] = [role |-> "user", content |-> rag.query]
            /\ json.context = [overrides |-> [top |-> 3, temperature |-> "0.3",
                                              minimum_search_score |-> "0.0",
                                              minimum_reranker_score |-> "0.0"]]
            /\ DOMAIN json = {"messages", "context"}
            /\ rag.history = rag.given

C17_Witness ==
    /\ rag.op = "process_query" /\ ~rag.given.none
    /\ Len(rag.given.list) = MaxHistory
    /\ Len(rag.posts[1].json.messages) = MaxHistory + 1

\* C18: whatever the network and the backend do, process_query raises
\* nothing and returns a value with an answer and a list of citations; a
\* body on which format_response raises gives the trouble-connecting answer.
C18_Total ==
    rag.op = "process_query" =>
        /\ rag.raised = FALSE
        /\ DOMAIN rag.result = {"answer", "citations"}
        /\ rag.result.answer # Null \/ Parsed
        /\ DOMAIN rag.result.citations = 1..Len(rag.result.citations)
        /\ (Parsed /\ format_response(rag.net.body).raised) =>
               rag.result = Answer(TroubleConnecting)

C18_Witness ==
    /\ Parsed /\ HasKey(rag.net.body, "message") /\ Item(rag.net.body, "message") = Null
    /\ rag.raised = FALSE /\ rag.result = Answer(TroubleConnecting)

(***************************************************************************)
(* Properties of the bot.                                                  *)
(***************************************************************************)
\* the activity just handled is one of these texts
Handled(texts) ==
    turn'.op = "message" /\ <<turn'.activity.text, turn'.activity.mentions>> \in texts

\* C19: a turn whose text is help, /help or HELP, in any letter case, with
\* or without mention markup and whitespace around it, sends the help card
\* first and, when that send comes back, nothing else; it changes no
\* conversation's history, reads no history and does not call the bridge.
C19_HelpCommand ==
    [][Handled(HelpTexts) =>
        /\ turn'.sends # <<>>
        /\ turn'.sends[1].what = Attachment(create_help_card)
        /\ turn'.sends[1].ok => Len(turn'.sends) = 1
        /\ conversation_state' = conversation_state
        /\ turn'.reads = 0
        /\ turn'.bridge = <<>>
        /\ turn'.storage_calls = <<>>
        /\ turn'.raised = FALSE
        /\ UNCHANGED <<storage_vars, bridge_vars>>]_vars

C19_Witness ==
    /\ turn.op = "message" /\ turn.activity.mentions = <<MentionMarkup>>
    /\ turn.activity.text = MentionMarkup \o <<" ">> \o help
    /\ turn.sends = <<[what |-> Attachment(create_help_card), ok |-> TRUE]>>
    /\ turn.activity.conversation \in DOMAIN conversation_state
    /\ conversation_state[turn.activity.conversation] # <<>>

\* C20: a turn whose text is clear or /clear, in any letter case, calls
\* clear_conversation of the history store once, for the conversation of the
\* turn, does not call the bridge, leaves that conversation's history empty
\* and the others as they were, and acknowledges the success of the clear.
C20_ClearCommand ==
    [][Handled(ClearTexts) =>
        LET id == turn'.activity.conversation
        IN  /\ turn'.storage_calls = <<[op |-> "clear_conversation", id |-> id]>>
            /\ turn'.bridge = <<>>
            /\ DictGet(conversation_state', id) = <<>>
            /\ \A other \in Ids \ {id} :
                   DictGet(conversation_state', other) = DictGet(conversation_state, other)
            /\ turn'.sends # <<>> /\ turn'.sends[1].what = HistoryCleared]_vars

\* the characters of s before its first space
RECURSIVE FirstToken(_)
FirstToken(s) ==
    IF s = <<>> \/ Head(s) = " " THEN <<>> ELSE <<Head(s)>> \o FirstToken(Tail(s))

\* the turn just handled was dispatched as a command: the help card or the
\* acknowledgment of the clear is what it sends first
Dispatched ==
    /\ turn'.op = "message" /\ turn'.sends # <<>>
    /\ turn'.sends[1].what \in {Attachment(create_help_card), HistoryCleared}

\* the turn just handled went the query path: the ask-a-question prompt, or
\* a call of the bridge
FellThrough ==
    /\ turn'.op = "message"
    /\ \/ turn'.sends # <<>> /\ turn'.sends[1].what = AskAQuestion
       \/ turn'.bridge # <<>>

\* C21: a turn is dispatched as a command if and only if its cleaned text,
\* in small letters, is exactly help or clear, or its first token is exactly
\* /help or /clear; every other turn goes the query path and leaves the
\* history of its conversation uncleared.
C21_CommandDispatch ==
    [][turn'.op = "message" =>
        LET message == Lower(cleaned[turn'.activity])
            id == turn'.activity.conversation
            is_command == \/ message \in {help, clear}
                          \/ FirstToken(message) \in {slash_help, slash_clear}
        IN  /\ Dispatched <=> is_command
            /\ ~is_command =>
                   /\ FellThrough
                   /\ Len(DictGet(conversation_state', id)) >= Len(DictGet(conversation_state, id))
                   /\ SubSeq(DictGet(conversation_state', id), 1,
                             Len(DictGet(conversation_state, id)))
                          = DictGet(conversation_state, id)]_vars

\* C22: a turn whose cleaned text is empty sends the prompt asking for a
\* question first and, when that send comes back, nothing else; it does not
\* call the bridge and changes no conversation's history.  The bridge is
\* never called with an empty query.
C22_EmptyQueryGuard ==
    [][turn'.op = "message" =>
        /\ \A i \in DOMAIN turn'.bridge : turn'.bridge[i].query # <<>>
        /\ Handled(EmptyTexts) =>
               /\ turn'.sends # <<>>
               /\ turn'.sends[1].what = AskAQuestion
               /\ turn'.sends[1].ok => Len(turn'.sends) = 1
               /\ turn'.bridge = <<>>
               /\ conversation_state' = conversation_state]_vars

C22_Witness ==
    /\ turn.op = "message" /\ turn.activity.text = MentionMarkup
    /\ turn.activity.mentions = <<MentionMarkup>>
    /\ turn.sends = <<[what |-> AskAQuestion, ok |-> TRUE]>>
    /\ turn.bridge = <<>>
    /\ DictGet(conversation_state, turn.activity.conversation) # <<>>

\* a step of the turn before the except clause failed: a send that is not
\* the apology, the bridge, or the building of the card
StepFailed(t) ==
    \/ \E i \in DOMAIN t.sends : t.sends[i].what # TroubleProcessing /\ ~t.sends[i].ok
    \/ \E i \in DOMAIN t.bridge :
           t.bridge[i].raised \/ format_response_card(t.bridge[i].result).raised

\* how many times the apology was sent
Apologies(t) == Cardinality({i \in DOMAIN t.sends : t.sends[i].what = TroubleProcessing})

\* C23: no exception leaves on_message_activity.  When a step of the turn
\* fails, the failure is logged and the apology is sent once, as the last
\* send of the turn; a failure of that send is logged and goes no further.
\* When no step fails, no apology is sent.
C23_NeverPropagates ==
    [][turn'.op = "message" =>
        /\ turn'.raised = FALSE
        /\ StepFailed(turn') =>
               /\ Apologies(turn') = 1
               /\ turn'.sends[Len(turn'.sends)].what = TroubleProcessing
               /\ turn'.logged # <<>> /\ turn'.logged[1] = "on_message_activity"
               /\ turn'.sends[Len(turn'.sends)].ok <=> Len(turn'.logged) = 1
        /\ ~StepFailed(turn') => Apologies(turn') = 0 /\ turn'.logged = <<>>]_vars

C23_Witness ==
    /\ turn.op = "message" /\ turn.raised = FALSE
    /\ Len(turn.sends) = 2
    /\ turn.sends[1].what.kind = "attachment" /\ ~turn.sends[1].ok
    /\ turn.sends[2] = [what |-> TroubleProcessing, ok |-> FALSE]
    /\ turn.logged = <<"on_message_activity", "send">>

\* what a turn may send first
FirstSends ==
    {Attachment(create_help_card), HistoryCleared, AskAQuestion, TroubleProcessing}

Exchange(call) ==
    <<[role |-> "user", content |-> call.query],
      [role |-> "assistant", content |-> call.result.answer]>>

\* C25: a turn that called the bridge and got an answer back, real or canned,
\* leaves the history of its conversation as it was with the user turn (the
\* cleaned query) and then the assistant turn (the answer) added at the end,
\* and sends the card that shows the answer.
C25_PersistThenRender ==
    [][turn'.op = "message" /\ turn'.bridge # <<>> /\ ~turn'.bridge[1].raised =>
        LET id == turn'.activity.conversation
            call == turn'.bridge[1]
        IN  /\ Len(turn'.bridge) = 1
            /\ call.query = cleaned[turn'.activity]
            /\ DictGet(conversation_state', id)
                   = DictGet(conversation_state, id) \o Exchange(call)
            /\ turn'.sends # <<>>
            /\ turn'.sends[1].what.kind = "attachment"
            /\ turn'.sends[1].what.card.name = "response"
            /\ turn'.sends[1].what.card.answer = call.result.answer]_vars

\* the send is the answer card
IsAnswerCard(send) == send.what \notin FirstSends /\ send.what.card.name = "response"

\* C34: a turn that reaches the bridge is not a command and not empty; it
\* reads the history once and calls the bridge once, with the cleaned query
\* and the history as it was before the turn; the request carries that
\* history and then the current user message; afterwards the history is the
\* old one, then the user turn, then the assistant turn, each once; the
\* answer card is sent at most once, as the first send, after the history
\* was updated: when that send fails the pair is in the history all the
\* same, the apology is sent next and nothing but the apology can have
\* reached the user.
C34_StepOrder ==
    [][turn'.op = "message" /\ turn'.bridge # <<>> =>
        LET id == turn'.activity.conversation
            call == turn'.bridge[1]
            before == DictGet(conversation_state, id)
        IN  /\ commands[turn'.activity] = "none" /\ cleaned[turn'.activity] # <<>>
            /\ turn'.reads = 1 /\ Len(turn'.bridge) = 1
            /\ call.query = cleaned[turn'.activity]
            /\ call.given = ListOf(before)
            /\ Len(call.posts) = 1
            /\ call.posts[1].json.messages
                   = before \o <<[role |-> "user", content |-> call.query]>>
            /\ DictGet(conversation_state', id) = before \o Exchange(call)
            /\ \A i \in DOMAIN turn'.sends : IsAnswerCard(turn'.sends[i]) => i = 1
            /\ Len(turn'.sends) <= 2
            /\ (turn'.sends # <<>> /\ ~turn'.sends[1].ok) =>
                   \A i \in DOMAIN turn'.sends :
                       turn'.sends[i].ok => turn'.sends[i].what = TroubleProcessing
            /\ (IsAnswerCard(turn'.sends[1]) /\ ~turn'.sends[1].ok) =>
                   /\ Len(turn'.sends) = 2
                   /\ turn'.sends[2].what = TroubleProcessing]_vars

\* the answer card could not be sent: the pair is in the history and the
\* user got the apology alone
C34_Witness ==
    /\ turn.op = "message" /\ Len(turn.bridge) = 1 /\ Len(turn.sends) = 2
    /\ IsAnswerCard(turn.sends[1]) /\ ~turn.sends[1].ok
    /\ turn.sends[2] = [what |-> TroubleProcessing, ok |-> TRUE]
    /\ DictGet(conversation_state, turn.activity.conversation) = Exchange(turn.bridge[1])

\* C33: the history handed to the bridge holds at most 20 turns and the
\* messages of the request at most 21, however many turns came before.
C33_HistoryBound ==
    [][turn'.op = "message" =>
        \A i \in DOMAIN turn'.bridge :
            /\ Len(OrEmpty(turn'.bridge[i].given)) <= 20
            /\ \A j \in DOMAIN turn'.bridge[i].posts :
                   Len(turn'.bridge[i].posts[j].json.messages) <= 21]_vars

\* a question asked after the list was cut: 20 turns, the last pair from an
\* exchange since the start, go to the bridge, 21 messages to the backend
C33_Witness ==
    /\ turn.op = "message" /\ Len(turn.bridge) = 1
    /\ Len(OrEmpty(turn.bridge[1].given)) = 20
    /\ OrEmpty(turn.bridge[1].given)[1].content = EarlierQuestion
    /\ OrEmpty(turn.bridge[1].given)[19].content = Question
    /\ Len(turn.bridge[1].posts[1].json.messages) = 21

\* the list is made of user/assistant pairs
Paired(history) ==
    /\ Len(history) % 2 = 0
    /\ \A i \in DOMAIN history :
           history[i].role = IF i % 2 = 1 THEN "user" ELSE "assistant"

\* C36: the history of every conversation has even length and alternates
\* user, assistant, user, assistant, ... from a user turn on, also after
\* the list was cut to its last 20.
C36_PairsAlternate ==
    \A id \in DOMAIN conversation_state : Paired(conversation_state[id])

\* the list was cut: it holds 20 turns, from an earlier user turn to the
\* assistant turn of the last exchange
C36_Witness ==
    /\ turn.op = "message" /\ Len(turn.bridge) = 1
    /\ Len(turn.bridge[1].posts[1].json.messages) = 21
    /\ Len(DictGet(conversation_state, "a")) = 20
    /\ DictGet(conversation_state, "a")[1].content = EarlierQuestion
    /\ DictGet(conversation_state, "a")[19].content = Question
    /\ DictGet(conversation_state, "a")[20].content = turn.bridge[1].result.answer

\* C35: a turn that reaches the bridge hands it the history of its
\* conversation as the earlier turns left it, and leaves the last 20 of that
\* history followed by its own user turn and assistant turn, whether the
\* answer is real or canned; a clear leaves the empty list; a help turn and
\* an empty-query turn leave the list as it is; no turn touches another
\* conversation.  Hence the history sent is the last min(20, 2k) turns of
\* the k exchanges since the last clear, in order.
C35_HistorySent ==
    [][turn'.op = "message" =>
        LET id == turn'.activity.conversation
            before == DictGet(conversation_state, id)
        IN  /\ turn'.bridge # <<>> =>
                   /\ turn'.bridge[1].given = ListOf(before)
                   /\ turn'.bridge[1].posts[1].json.messages
                          = before \o <<[role |-> "user", content |-> turn'.bridge[1].query]>>
                   /\ DictGet(conversation_state', id)
                          = SliceLast(before \o Exchange(turn'.bridge[1]), 20)
            /\ (turn'.bridge = <<>> /\ commands[turn'.activity] = "clear") =>
                   DictGet(conversation_state', id) = <<>>
            /\ (turn'.bridge = <<>> /\ commands[turn'.activity] # "clear") =>
                   conversation_state' = conversation_state
            /\ \A other \in DOMAIN conversation_state \ {id} :
                   DictGet(conversation_state', other) = conversation_state[other]]_vars

\* a question whose history of 20 ends with the pair of the question before
\* it, answered by the canned text of a timeout
C35_Witness ==
    /\ turn.op = "message" /\ Len(turn.bridge) = 1
    /\ Len(OrEmpty(turn.bridge[1].given)) = 20
    /\ OrEmpty(turn.bridge[1].given)[18].content = Str("A")
    /\ OrEmpty(turn.bridge[1].given)[19].content = Question
    /\ OrEmpty(turn.bridge[1].given)[20].content = TakingTooLong

\* the reply of the scenario: the flat answer and one citation
ScenarioReply ==
    Outcome("response", 200, "ok",
            Dict(<<"answer", "citations">>, <<Str("B"), List(<<CitationFull>>)>>))

\* the turn just handled is the one of the scenario: the mention and the
\* question with whitespace around and inside, no history yet, and the reply
Scenario ==
    /\ turn'.op = "message"
    /\ turn'.activity.text = ScenarioText /\ turn'.activity.mentions = <<MentionName>>
    /\ DictGet(conversation_state, turn'.activity.conversation) = <<>>
    /\ turn'.bridge # <<>> /\ turn'.bridge[1].net = ScenarioReply

\* the card of the scenario
ScenarioCard ==
    [name |-> "response", answer |-> Str("B"),
     citations |-> <<[title |-> Str("HR Policy"), content |-> Str("...")]>>]

\* C27: in the scenario the bridge is asked the question alone, without the
\* mention and with the whitespace trimmed and collapsed; the conversation
\* then holds two turns, the user turn with that question and the assistant
\* turn with the answer of the reply; and the card that is sent holds that
\* answer and one citation block, with the title of the citation.
C27_EndToEnd ==
    [][Scenario =>
        /\ Len(turn'.bridge) = 1
        /\ turn'.bridge[1].query = Question
        /\ DictGet(conversation_state', turn'.activity.conversation)
               = <<[role |-> "user", content |-> Question],
                   [role |-> "assistant", content |-> Str("B")]>>
        /\ turn'.sends # <<>>
        /\ turn'.sends[1].what = Attachment(ScenarioCard)]_vars

C27_Witness ==
    /\ turn.op = "message"
    /\ turn.activity.text = ScenarioText /\ turn.activity.mentions = <<MentionName>>
    /\ turn.bridge # <<>> /\ turn.bridge[1].net = ScenarioReply
    /\ turn.bridge[1].history = ListOf(<<>>)
    /\ turn.sends = <<[what |-> Attachment(ScenarioCard), ok |-> TRUE]>>
    /\ Len(DictGet(conversation_state, turn.activity.conversation)) = 2

(***************************************************************************)
(* Properties of format_response_card.                                     *)
(***************************************************************************)
\* the content of a citation as the card is to show it
Displayed(content) ==
    IF Len(content.s) <= 200 THEN content ELSE Str(SubSeq(content.s, 1, 200) \o "...")

\* C26: the card holds min(3, number of citations) citation blocks, for the
\* first citations in their order, each with the title of its citation and
\* with its content, whole when it has at most 200 characters and cut to
\* its first 200 characters followed by "..." otherwise; the answer is shown
\* as it is.
C26_CardDisplay ==
    rendered.op = "format_response_card" =>
        LET citations == rendered.response.citations
            blocks == rendered.card.citations
        IN  /\ ~rendered.raised
            /\ Len(blocks) = Min(3, Len(citations))
            /\ \A i \in DOMAIN blocks :
                   /\ blocks[i].title = citations[i].title
                   /\ blocks[i].content = Displayed(citations[i].content)
            /\ rendered.card.answer = rendered.response.answer

(***************************************************************************)
(* Properties of the turns in flight.                                      *)
(***************************************************************************)
\* the turns of conversation id that had their reply before event number n,
\* in the order of their replies
EndedEarlier(i, j) == inflight[i].ended < inflight[j].ended

EndedBefore(id, n) ==
    SortSeq(SetToSeq({i \in DOMAIN inflight :
                         /\ inflight[i].id = id /\ inflight[i].state = "done"
                         /\ inflight[i].ended < n}),
            EndedEarlier)

\* the user turn and the assistant turn of each of these turns, one pair
\* after the other
RECURSIVE Exchanges(_)
Exchanges(order) ==
    IF order = <<>> THEN <<>>
    ELSE Exchange(inflight[Head(order)]) \o Exchanges(Tail(order))

Events == 2 * MaxTurns + 1

\* the turns i and j were both waiting for the bridge at one time
Overlap(i, j) ==
    /\ inflight[i].state = "waiting" \/ inflight[j].begun < inflight[i].ended
    /\ inflight[j].state = "waiting" \/ inflight[i].begun < inflight[j].ended

\* C29: the history a turn posts to the backend is the one its conversation
\* held when the turn began: the exchanges of the turns that had their reply
\* by then and of no turn still in flight.  Two turns of one conversation
\* that are in flight together, with no reply for the conversation between
\* their starts, post the same history.  The history of a conversation is
\* made of the exchanges of its turns in the order of their replies, the
\* user turn of each right before its assistant turn.
C29_NoSerialization ==
    /\ \A id \in Ids : DictGet(conversation_state, id) = Exchanges(EndedBefore(id, Events))
    /\ \A i \in DOMAIN inflight :
           /\ inflight[i].history = Exchanges(EndedBefore(inflight[i].id, inflight[i].begun))
           /\ inflight[i].posted.json.messages
                  = inflight[i].history \o <<[role |-> "user", content |-> inflight[i].query]>>
    /\ \A i, j \in DOMAIN inflight :
           (/\ i < j /\ inflight[i].id = inflight[j].id /\ Overlap(i, j)
            /\ EndedBefore(inflight[i].id, inflight[j].begun)
                   = EndedBefore(inflight[i].id, inflight[i].begun))
           => inflight[i].posted = inflight[j].posted

\* two turns of one conversation in flight together, the second to arrive
\* the first to have its reply
C29_Witness ==
    /\ Len(inflight) >= 2
    /\ inflight[1].id = inflight[2].id
    /\ inflight[1].state = "done" /\ inflight[2].state = "done"
    /\ inflight[2].begun < inflight[2].ended /\ inflight[2].ended < inflight[1].ended
    /\ inflight[1].begun = 1 /\ inflight[2].begun = 2
    /\ inflight[1].result.answer # inflight[2].result.answer
    /\ inflight[1].posted = inflight[2].posted
    /\ DictGet(conversation_state, inflight[1].id)
           = Exchange(inflight[2]) \o Exchange(inflight[1])

\* when conversation id was last cleared before the event n (0: never)
LastClear(id, n) ==
    LET times == {inflight[i].begun : i \in {j \in DOMAIN inflight :
                                                /\ inflight[j].id = id
                                                /\ inflight[j].state = "cleared"
                                                /\ inflight[j].begun < n}}
    IN  IF times = {} THEN 0 ELSE CHOOSE x \in times : \A y \in times : y <= x

\* the turns of conversation id that had their reply after lo and before hi
EndedBetween(id, lo, hi) ==
    SortSeq(SetToSeq({i \in DOMAIN inflight :
                         /\ inflight[i].id = id /\ inflight[i].state = "done"
                         /\ lo < inflight[i].ended /\ inflight[i].ended < hi}),
            EndedEarlier)

\* C37: a clear does not cancel a turn that waits for the bridge.  The
\* history of a conversation is made of the exchanges of the turns that had
\* their reply since its last clear, whenever they began, so a turn in
\* flight across a clear leaves its pair in the cleared list; the request
\* of every turn holds the history of the time the turn began, which for
\* such a turn is the one before the clear.
C37_ClearDoesNotCancel ==
    /\ \A id \in Ids :
           DictGet(conversation_state, id)
               = Exchanges(EndedBetween(id, LastClear(id, Events), Events))
    /\ \A i \in DOMAIN inflight :
           inflight[i].state # "cleared" =>
               /\ inflight[i].history
                      = Exchanges(EndedBetween(inflight[i].id,
                                               LastClear(inflight[i].id, inflight[i].begun),
                                               inflight[i].begun))
               /\ inflight[i].posted.json.messages
                      = inflight[i].history
                            \o <<[role |-> "user", content |-> inflight[i].query]>>

\* a turn began with one exchange in the history, the conversation was
\* cleared, then the turn had its reply: its pair is the whole history
C37_Witness ==
    \E i, c \in DOMAIN inflight :
        /\ inflight[i].id = inflight[c].id
        /\ inflight[i].state = "done" /\ inflight[c].state = "cleared"
        /\ inflight[i].begun < inflight[c].begun
        /\ inflight[c].begun < inflight[i].ended
        /\ inflight[i].history # <<>>
        /\ DictGet(conversation_state, inflight[i].id) = Exchange(inflight[i])

====
